---------------------------- MODULE Spec2Model ----------------------------
(***************************************************************************)
(* Market discovery, feed connection and price journaling of               *)
(* src/src/services/MarketDiscoveryService.ts (MarketDiscoveryService,     *)
(* CSVWriter and PriceStreamLogger).                                       *)
(*                                                                         *)
(* Times are milliseconds.  Prices are fixed-point integers in units of    *)
(* 1e-7 (PriceUnit per 1.0), fine enough for the 6-decimal rounding of     *)
(* maybeWriteRow and the 4-decimal formatting of addRow to be real         *)
(* conversions.                                                            *)
(***************************************************************************)
EXTENDS Integers, Sequences, FiniteSets, TLC

(***************************************************************************)
(* Bounds of the model.                                                    *)
(***************************************************************************)
\* socket objects that exist at once: the current one and the replaced ones
\* whose 'close' is still to come
MaxSockets == 2
\* discoverAndConnect calls in flight at once
MaxPasses == 1
\* cap of the reconnect attempt counter
MaxAttempts == 2
\* the clock takes the instants 0, ClockStepMs, ..., MaxNow * ClockStepMs
MaxNow == 1
\* the count of consecutive failures saturates here
MaxFailures == 2
\* reconnect timers that can be pending at once
MaxTimers == 2
\* feed frames delivered
MaxFrames == 2
\* feed frames delivered and calls of markWatchEntry and markPaperEntry
\* made, together
MaxInputs == 2

(***************************************************************************)
(* Program constants.                                                      *)
(***************************************************************************)
RECONNECT_BACKOFF_MS == 1000
MAX_RECONNECT_BACKOFF_MS == 60000
maxRetries == 3
FORCE_REFRESH_INTERVAL_MS == 5 * 60 * 1000
MARKET_SWITCH_BUFFER_MS == 60000
WindowSec == 900

MARKET_SLUG_PREFIXES ==
    << "btc-updown-15m", "eth-updown-15m",
       "bitcoin-up-or-down", "ethereum-up-or-down" >>

MarketTypes == { MARKET_SLUG_PREFIXES[i] : i \in DOMAIN MARKET_SLUG_PREFIXES }

\* the clock's instants are the boundaries of the 15-minute windows
ClockStepMs == 900 * 1000

Min(a, b) == IF a <= b THEN a ELSE b

RECURSIVE Pow2(_)
Pow2(n) == IF n = 0 THEN 1 ELSE 2 * Pow2(n - 1)

(***************************************************************************)
(* The remote catalog: the market windows the discovery endpoint can       *)
(* return.  A window is a MarketInfo; slugTs is the timestamp embedded in  *)
(* a 15-minute slug (-1: the slug embeds none), tokens[1] is the Up token  *)
(* and tokens[2] the Down token.  The ethereum-up-or-down window has not   *)
(* started at the first instants of the clock.  Windows 6 to 8 are listed  *)
(* by the catalogs of the discovery scenarios only: the bitcoin-up-or-down *)
(* window of the next hour, one of four hours that holds both hourly ones  *)
(* (the prefix also matches the slugs of longer events), and a 15-minute   *)
(* window of the first grid slot that ends 100 s late.                     *)
(***************************************************************************)
NoSlugTs == 0 - 1

MarketInfo(cid, type, slugTs, startMs, endMs, up, down) ==
    [ condition_id |-> cid, market_type |-> type, slugTs |-> slugTs,
      startMs |-> startMs, endMs |-> endMs,
      tokens |-> << [token_id |-> up, outcome |-> "Up"],
                    [token_id |-> down, outcome |-> "Down"] >> ]

Markets ==
    << MarketInfo(1, "btc-updown-15m", 0, 0, 900000, 1, 2),
       MarketInfo(2, "btc-updown-15m", 900, 900000, 1800000, 3, 4),
       MarketInfo(3, "eth-updown-15m", 0, 0, 900000, 5, 6),
       MarketInfo(4, "bitcoin-up-or-down", NoSlugTs, 0, 3600000, 7, 8),
       MarketInfo(5, "ethereum-up-or-down", NoSlugTs, 1800000, 3600000, 9, 10),
       MarketInfo(6, "bitcoin-up-or-down", NoSlugTs, 3600000, 7200000, 11, 12),
       MarketInfo(7, "bitcoin-up-or-down", NoSlugTs, 0, 14400000, 13, 14),
       MarketInfo(8, "btc-updown-15m", 0, 0, 1000000, 15, 16) >>

MarketIds == DOMAIN Markets
NoMarket == 0

TokenIds == UNION { { Markets[m].tokens[i].token_id : i \in 1..2 } : m \in MarketIds }

\* What the sub-queries of one fetchAllMarkets call return, concatenated:
\* everything (the hourly windows twice, from the tag query and from the
\* prefix queries), only the first market type (the other queries failed),
\* nothing.
Responses ==
    { << 4, 5, 4, 5, 1, 2, 3 >>, << 2, 1 >>, << >> }


(***************************************************************************)
(* MarketDiscoveryService                                                  *)
(***************************************************************************)
\* a deduplication that keeps every element
dedupeNothing(ms, seen) == ms

RECURSIVE Dedupe(_, _)
Dedupe(ms, seen) ==
    IF ms = << >> THEN << >>
    ELSE IF Markets[Head(ms)].condition_id \in seen
         THEN Dedupe(Tail(ms), seen)
         ELSE << Head(ms) >>
              \o Dedupe(Tail(ms), seen \cup { Markets[Head(ms)].condition_id })

\* stable insertion of m into a list sorted by end time
RECURSIVE InsertByEnd(_, _)
InsertByEnd(m, sorted) ==
    IF sorted = << >> THEN << m >>
    ELSE IF Markets[Head(sorted)].endMs <= Markets[m].endMs
         THEN << Head(sorted) >> \o InsertByEnd(m, Tail(sorted))
         ELSE << m >> \o sorted

RECURSIVE SortByEnd(_)
SortByEnd(ms) ==
    IF ms = << >> THEN << >>
    ELSE InsertByEnd(ms[Len(ms)], SortByEnd(SubSeq(ms, 1, Len(ms) - 1)))

\* fetchAllMarkets on the concatenated sub-query results: deduplicate by
\* condition id (first occurrence wins), sort by end time
fetchAllMarkets(raw) == SortByEnd(Dedupe(raw, {}))

\* calculateETWindowBoundaries: the start, in seconds, of the 15-minute grid
\* window holding `now` (the reference zone is a whole number of quarter
\* hours from UTC)
currentWindowStartSec(now) == ((now \div 1000) \div WindowSec) * WindowSec

is15MinMarket(marketType) ==
    marketType \in { "btc-updown-15m", "eth-updown-15m" }

\* a slug test that takes every candidate for one of the current slot
slugAlwaysMatches(market, marketType, now) == FALSE

\* lines 286-291: the candidate is of a 15-minute type and its slug embeds
\* a timestamp that is not the start of the current grid slot
slugMismatch(market, marketType, now) ==
    /\ is15MinMarket(marketType)
    /\ market.slugTs # NoSlugTs
    /\ market.slugTs # currentWindowStartSec(now)

\* a resolution that never takes a window that has not started for current
neverFutureAsCurrent(st) == FALSE

\* line 314: a window that has not started is met with no current chosen
futureAsCurrent(st) == st.current = NoMarket

\* one iteration of the loop over a type's candidates, lines 281-321;
\* st = [current, next], each a market id or NoMarket
ResolveStep(st, m, marketType, now) ==
    LET market == Markets[m]
        startTime == market.startMs
        endTime == market.endMs
        nowWithBuffer == now + 1000
    IN  IF slugMismatch(market, marketType, now)
        THEN IF market.slugTs > currentWindowStartSec(now) /\ st.next = NoMarket
             THEN [st EXCEPT !.next = m]
             ELSE st
        ELSE IF endTime > now
        THEN IF startTime <= nowWithBuffer
             THEN IF st.current = NoMarket
                  THEN [st EXCEPT !.current = m]
                  ELSE IF /\ startTime > Markets[st.current].startMs
                          /\ startTime <= now
                       THEN [st EXCEPT !.current = m]
                       ELSE st
             ELSE IF st.current # NoMarket /\ st.next = NoMarket
                  THEN [st EXCEPT !.next = m]
                  ELSE IF futureAsCurrent(st)
                       THEN [st EXCEPT !.current = m]
                       ELSE st
        ELSE st

RECURSIVE ResolveType(_, _, _, _)
ResolveType(st, ms, marketType, now) ==
    IF ms = << >> THEN st
    ELSE ResolveType(ResolveStep(st, Head(ms), marketType, now),
                     Tail(ms), marketType, now)

\* marketsByType.get(marketType): the candidates of one type, in list order
RECURSIVE OfType(_, _)
OfType(ms, marketType) ==
    IF ms = << >> THEN << >>
    ELSE IF Markets[Head(ms)].market_type = marketType
         THEN << Head(ms) >> \o OfType(Tail(ms), marketType)
         ELSE OfType(Tail(ms), marketType)

\* one attempt of findCurrentMarketsForAllTypes, lines 263-332: both maps
\* are cleared and rebuilt from the fetched list; a type without a window
\* maps to NoMarket
ResolveAll(allMarkets, now) ==
    LET r == [ t \in MarketTypes |->
                 ResolveType([current |-> NoMarket, next |-> NoMarket],
                             OfType(allMarkets, t), t, now) ]
    IN  [ currentMarkets |-> [ t \in MarketTypes |-> r[t].current ],
          nextMarkets |-> [ t \in MarketTypes |-> r[t].next ] ]

MapSize(map) == Cardinality({ t \in MarketTypes : map[t] # NoMarket })

TokensOf(m) == { Markets[m].tokens[i].token_id : i \in DOMAIN Markets[m].tokens }

\* getAllAssetIds: the token ids of the current windows, then those of the
\* next windows not yet listed
getAllAssetIds(cur, nxt) ==
    UNION { TokensOf(cur[t]) : t \in { u \in MarketTypes : cur[u] # NoMarket } }
    \cup
    UNION { TokensOf(nxt[t]) : t \in { u \in MarketTypes : nxt[u] # NoMarket } }

\* getMarketByAssetId: current windows first, in the maps' insertion order
\* (the order of MARKET_SLUG_PREFIXES), then next windows
RECURSIVE FirstWith(_, _, _)
FirstWith(map, assetId, i) ==
    IF i > Len(MARKET_SLUG_PREFIXES) THEN NoMarket
    ELSE LET m == map[MARKET_SLUG_PREFIXES[i]]
         IN  IF m # NoMarket /\ assetId \in TokensOf(m) THEN m
             ELSE FirstWith(map, assetId, i + 1)

getMarketByAssetId(cur, nxt, assetId) ==
    IF FirstWith(cur, assetId, 1) # NoMarket THEN FirstWith(cur, assetId, 1)
    ELSE FirstWith(nxt, assetId, 1)

\* a test of the current windows that finds none ended and none stale
neverEnded(cur, now) == FALSE

\* getMarketTypesNeedingSwitch(bufferMs = 60000)
getMarketTypesNeedingSwitch(cur, now) ==
    { t \in MarketTypes :
        /\ cur[t] # NoMarket
        /\ LET timeLeft == Markets[cur[t]].endMs - now
           IN  timeLeft < MARKET_SWITCH_BUFFER_MS \/ timeLeft < 0 }

\* hasAnyMarketEnded: ended, or stale (more time left than the nominal
\* duration of the type allows)
hasAnyMarketEnded(cur, now) ==
    \E t \in MarketTypes :
        /\ cur[t] # NoMarket
        /\ LET timeLeft == Markets[cur[t]].endMs - now
           IN  \/ now > Markets[cur[t]].endMs
               \/ t \in { "btc-updown-15m", "eth-updown-15m" }
                  /\ timeLeft > 16 * 60 * 1000
               \/ t \in { "bitcoin-up-or-down", "ethereum-up-or-down" }
                  /\ timeLeft > 61 * 60 * 1000

(***************************************************************************)
(* State                                                                   *)
(***************************************************************************)
VARIABLES
    \* environment
    now,                 \* Date.now()
    replaced,            \* readyState of each replaced WebSocket object whose
                         \* 'close' is still to come, oldest first
    timers,              \* pending setTimeout timers of scheduleReconnect
    passes,              \* discoverAndConnect calls awaiting the catalog
    outbox,              \* frames sent by the last handler
    \* MarketDiscoveryService
    currentMarkets, nextMarkets,
    \* history, kept in the discovery scenarios: the candidates the last
    \* attempt of a discovery pass worked on, the list fetchAllMarkets
    \* returned to it
    fetched,
    \* PriceStreamLogger; ws is the readyState of the WebSocket object the
    \* field refers to ("null": the field is null)
    ws, isConnected, reconnectAttempts, reconnectTimeout, pingInterval,
    marketCheckInterval, lastForceRefresh, isShuttingDown, isStarted,
    stopPending, currentAssetIds, assetStates, pendingRows, writers,
    priceHistory, loggedTradeEntries,
    \* the feed frame the last step delivered (none: << >>), and what its
    \* handler did: the calls of maybeWriteRow (offers) and of addRow
    \* (emitted)
    inbox, offers, emitted,
    \* the call of markWatchEntry or markPaperEntry the last step made
    \* (none: << >>); its call of addRow is in emitted
    marked,
    \* history: feed frames delivered and marker calls made so far
    delivered, marks,
    \* history: for each trade key, the marker rows its calls have had
    \* accepted by a journal
    markerRows,
    \* the asset ids listed by the last subscription frame sent on the
    \* current socket ({}: none sent on it)
    lastSub,
    \* history: the current socket took a subscription frame after the one
    \* of its open handler
    resubscribed,
    \* history: unsolicited socket closes since the last open
    failures,
    \* the process the stream runs in: "running", "stopping" while a signal
    \* handler awaits PolymarketBot.stop(), "exited" after process.exit
    process

envVars == << now, replaced, timers, passes, outbox >>
discoveryVars == << currentMarkets, nextMarkets, fetched >>
connVars ==
    << ws, isConnected, reconnectAttempts, reconnectTimeout, pingInterval,
       marketCheckInterval, lastForceRefresh, isShuttingDown, isStarted,
       stopPending, currentAssetIds, lastSub, resubscribed, failures >>
rowVars ==
    << pendingRows, priceHistory, loggedTradeEntries, delivered, marks,
       markerRows >>
frameVars == << inbox, offers, emitted, marked >>
vars ==
    << envVars, discoveryVars, connVars, assetStates, writers, rowVars,
       frameVars, process >>

\* the socket an event is for: the current one, or the i-th replaced one
Current == 0
TimerIds == 1..MaxTimers
NoTimer == 0
\* null, for a number and for a string
Null == 0 - 1
NullString == "null"

NullAssetState ==
    [ lastPrice |-> Null, bestBid |-> Null, bestAsk |-> Null,
      lastTradePrice |-> Null, marketConditionId |-> NullString ]

NewWriter ==
    [ buffer |-> << >>, recentRowKeys |-> << >>, lastWrittenTimestamp |-> 0,
      file |-> << >>, ended |-> FALSE ]

\* the state after construction, the clock reading `instant`
InitAt(instant) ==
    /\ now = instant
    /\ replaced = << >>
    /\ timers = {}
    /\ passes = << >>
    /\ outbox = << >>
    /\ currentMarkets = [ t \in MarketTypes |-> NoMarket ]
    /\ nextMarkets = [ t \in MarketTypes |-> NoMarket ]
    /\ fetched = << >>
    /\ ws = "null"
    /\ isConnected = FALSE
    /\ reconnectAttempts = 0
    /\ reconnectTimeout = NoTimer
    /\ pingInterval = FALSE
    /\ marketCheckInterval = FALSE
    /\ lastForceRefresh = 0
    /\ isShuttingDown = FALSE
    /\ isStarted = FALSE
    /\ stopPending = FALSE
    /\ currentAssetIds = {}
    /\ assetStates = << >>
    /\ pendingRows = << >>
    /\ writers = [ t \in MarketTypes |-> NewWriter ]
    /\ priceHistory = << >>
    /\ loggedTradeEntries = {}
    /\ inbox = << >>
    /\ offers = << >>
    /\ emitted = << >>
    /\ marked = << >>
    /\ delivered = 0
    /\ marks = 0
    /\ markerRows = << >>
    /\ lastSub = {}
    /\ resubscribed = FALSE
    /\ failures = 0
    /\ process = "running"

Init == InitAt(0)

(***************************************************************************)
(* Connection manager                                                      *)
(***************************************************************************)
\* Faulty variants of the operators below; a property that tells the code
\* from them is not vacuous.
\* a schedule that leaves the pending timer in place
clearNothing(pending, handle) == pending
\* a close() that does not close
closeNothing(readyState) == readyState
\* a reconciliation that never resubscribes in place
neverResubscribe == FALSE
\* a reconciliation that takes every socket for ready
alwaysResubscribe == TRUE

\* a step that delivers no feed frame and makes no marker call
noFrame ==
    inbox' = << >> /\ offers' = << >> /\ emitted' = << >> /\ marked' = << >>

\* clearTimeout(handle) on the set of pending timers
clearTimeout(pending, handle) == { t \in pending : t.id # handle }

\* readyState after ws.close(): an open socket starts the closing handshake,
\* a connecting one aborts its handshake; both emit 'close' later
closeSocket(readyState) ==
    CASE readyState = "connecting" -> "aborting"
      [] readyState = "open" -> "closing"
      [] OTHER -> readyState

\* a connect() that does not look at the shutdown flag
connectAnyway == TRUE

\* the guard of connect(), line 1101: no socket once stop() was requested
mayConnect == ~isShuttingDown

\* line 1013: the socket can take a new subscription in place
canResubscribe ==
    ws = "open" /\ isConnected

\* arraysEqual: same length and same sorted content
arraysEqual(a, b) == Cardinality(a) = Cardinality(b) /\ a = b

\* an initializeAssetStates that starts every tracked id afresh
resetAllStates(assetIds) == [ a \in assetIds |-> NullAssetState ]

\* an initializeAssetStates that drops no state
keepAllStates(assetIds) ==
    [ a \in assetIds \cup DOMAIN assetStates |->
        IF a \in DOMAIN assetStates THEN assetStates[a] ELSE NullAssetState ]

\* initializeAssetStates: drop the states of ids no longer tracked, add an
\* empty state for each new id, keep the others
initializeAssetStates(assetIds) ==
    [ a \in assetIds |->
        IF a \in DOMAIN assetStates THEN assetStates[a] ELSE NullAssetState ]

\* the frame of subscribe()
subscribeMsg(assetIds) == [ assets_ids |-> assetIds, type |-> "market" ]

\* subscribe(), lines 1124-1134: the frames it sends on the current socket,
\* none unless the socket is open
subscribe(readyState, assetIds) ==
    IF readyState = "open" THEN << subscribeMsg(assetIds) >> ELSE << >>

LeastOf(S) == CHOOSE x \in S : \A y \in S : x <= y

\* scheduleReconnect's delay
backoff(attempts) ==
    Min(RECONNECT_BACKOFF_MS * Pow2(attempts), MAX_RECONNECT_BACKOFF_MS)

\* discoverAndConnect after the discovery returned, lines 983-1025, with
\* subscribe (1124-1134) and connect (1100-1113)
Reconcile ==
    LET assetIds == getAllAssetIds(currentMarkets', nextMarkets')
    IN  IF \/ MapSize(currentMarkets') = 0
           \/ assetIds = {}
           \/ arraysEqual(assetIds, currentAssetIds)
        THEN /\ outbox' = << >>
             /\ UNCHANGED << currentAssetIds, assetStates, ws, replaced,
                             lastSub, resubscribed >>
        ELSE /\ currentAssetIds' = assetIds
             /\ assetStates' = initializeAssetStates(assetIds)
             /\ IF canResubscribe
                THEN /\ outbox' = subscribe(ws, assetIds)
                     /\ lastSub' = IF outbox' # << >> THEN assetIds ELSE lastSub
                     /\ resubscribed' = (resubscribed \/ outbox' # << >>)
                     /\ UNCHANGED << ws, replaced >>
                ELSE LET old == IF ws = "null" THEN ws ELSE closeSocket(ws)
                     IN  /\ outbox' = << >>
                         /\ IF ~mayConnect
                            THEN /\ ws' = old
                                 /\ UNCHANGED << replaced, lastSub, resubscribed >>
                            ELSE /\ ws' = "connecting"
                                 /\ replaced' =
                                        IF old \in { "null", "closed" }
                                        THEN replaced
                                        ELSE Append(replaced, old)
                                 /\ Len(replaced') < MaxSockets
                                 /\ lastSub' = {}
                                 /\ resubscribed' = FALSE

\* a call of discoverAndConnect begins: it awaits the discovery; caller is
\* "start" (start(), which goes on after it) or "refresh" (the rotation poll
\* or the reconnect timer, whose callbacks end with it)
PassIds == 1..MaxPasses

\* the calls in flight; each is told from the others by its id
inFlight == { passes[i].id : i \in DOMAIN passes }

\* with at most `limit` calls in flight; overtaken is history, kept in
\* the overlap scenarios: a call that began later has returned
BeginPassUpTo(caller, limit) ==
    /\ Len(passes) < limit
    /\ passes' = Append(passes, [ caller |-> caller, attempt |-> 1,
                                  id |-> LeastOf((1..limit) \ inFlight),
                                  overtaken |-> FALSE ])

BeginPass(caller) == BeginPassUpTo(caller, MaxPasses)

\* start(), lines 940-949; the process starts the stream once, at load
\* (line 1623), and not again after a stop
Start ==
    /\ ~isStarted
    /\ ~isShuttingDown
    /\ isStarted' = TRUE
    /\ BeginPass("start")
    /\ outbox' = << >>
    /\ noFrame
    /\ UNCHANGED process
    /\ UNCHANGED << now, replaced, timers, discoveryVars, ws, isConnected,
                    reconnectAttempts, reconnectTimeout, pingInterval,
                    marketCheckInterval, lastForceRefresh, isShuttingDown,
                    stopPending, currentAssetIds, lastSub, resubscribed, failures,
                    assetStates, writers, rowVars >>

\* a pass that returns only with every type resolved
returnsWhenComplete(resolved, attempt) == resolved >= 4

\* lines 261, 334-337 and 346-347: the pass returns with all four types
\* resolved, or after its last attempt
passReturns(resolved, attempt) == resolved >= 4 \/ attempt >= maxRetries

RemoveAt(seq, i) == SubSeq(seq, 1, i - 1) \o SubSeq(seq, i + 1, Len(seq))

\* the calls in flight when call i returns: those that began before it
\* (they come first in passes) are marked, on demand
returned(i, history) ==
    RemoveAt([ j \in DOMAIN passes |->
                 IF "overtaken" \in history /\ j < i
                 THEN [ passes[j] EXCEPT !.overtaken = TRUE ]
                 ELSE passes[j] ], i)

\* one attempt of findCurrentMarketsForAllTypes completes with the catalog
\* answering `raw`: lines 261-343; on the last attempt, or with all four
\* types resolved, the pass returns and discoverAndConnect goes on (and
\* after it start(), line 950); history is the history to record
Attempt(i, raw, history) ==
    LET pass == passes[i]
        r == ResolveAll(fetchAllMarkets(raw), now)
    IN  /\ fetched' = IF "fetched" \in history
                      THEN fetchAllMarkets(raw) ELSE fetched
        /\ currentMarkets' = r.currentMarkets
        /\ nextMarkets' = r.nextMarkets
        /\ IF passReturns(MapSize(r.currentMarkets), pass.attempt)
           THEN /\ passes' = returned(i, history)
                /\ Reconcile
                /\ IF pass.caller = "start"
                   THEN /\ marketCheckInterval' = TRUE
                        /\ lastForceRefresh' = now
                   ELSE UNCHANGED << marketCheckInterval, lastForceRefresh >>
           ELSE /\ passes' = [passes EXCEPT ![i].attempt = @ + 1]
                /\ outbox' = << >>
                /\ UNCHANGED << currentAssetIds, assetStates, ws, replaced,
                                lastSub, resubscribed, marketCheckInterval,
                                lastForceRefresh >>
        /\ noFrame
        /\ UNCHANGED process
        /\ UNCHANGED << now, timers, isConnected, reconnectAttempts,
                        reconnectTimeout, pingInterval, isShuttingDown,
                        isStarted, stopPending, failures, writers,
                        rowVars >>

FetchDone(i, raw) == Attempt(i, raw, {})

\* the same, with the fetched list recorded
FetchRecorded(i, raw) == Attempt(i, raw, { "fetched" })

\* the same, with the overtaken calls recorded
FetchOrdered(i, raw) == Attempt(i, raw, { "overtaken" })

\* the rotation poll callback, lines 1071-1090, when a trigger holds, with
\* at most `limit` calls of discoverAndConnect in flight
PollTickUpTo(limit) ==
    /\ marketCheckInterval
    /\ ~isShuttingDown
    /\ \/ getMarketTypesNeedingSwitch(currentMarkets, now) # {}
       \/ hasAnyMarketEnded(currentMarkets, now)
       \/ now - lastForceRefresh > FORCE_REFRESH_INTERVAL_MS
    /\ lastForceRefresh' = now
    /\ BeginPassUpTo("refresh", limit)
    /\ outbox' = << >>
    /\ noFrame
    /\ UNCHANGED process
    /\ UNCHANGED << now, replaced, timers, discoveryVars, ws, isConnected,
                    reconnectAttempts, reconnectTimeout, pingInterval,
                    marketCheckInterval, isShuttingDown, isStarted,
                    stopPending, currentAssetIds, lastSub, resubscribed, failures,
                    assetStates, writers, rowVars >>

PollTick == PollTickUpTo(MaxPasses)

\* 'open' of a socket: onOpen, lines 1115-1122
SocketOpen(i) ==
    /\ IF i = Current
       THEN /\ ws = "connecting"
            /\ ws' = "open"
            /\ UNCHANGED replaced
       ELSE /\ replaced[i] = "connecting"
            /\ replaced' = [replaced EXCEPT ![i] = "open"]
            /\ UNCHANGED ws
    /\ isConnected' = TRUE
    /\ reconnectAttempts' = 0
    /\ outbox' = subscribe(ws', currentAssetIds)
    /\ lastSub' = IF outbox' # << >> THEN currentAssetIds ELSE lastSub
    /\ resubscribed' = IF i = Current THEN FALSE
                       ELSE (resubscribed \/ outbox' # << >>)
    /\ pingInterval' = TRUE
    /\ failures' = 0
    /\ noFrame
    /\ UNCHANGED process
    /\ UNCHANGED << now, timers, passes, discoveryVars, reconnectTimeout,
                    marketCheckInterval, lastForceRefresh, isShuttingDown,
                    isStarted, stopPending, currentAssetIds,
                    assetStates, writers, rowVars >>

\* scheduleReconnect, lines 1389-1405: cancel the pending timer, set a new one
scheduleReconnect ==
    LET cleared == clearTimeout(timers, reconnectTimeout)
        unused == TimerIds \ { t.id : t \in cleared }
    IN  /\ unused # {}
        /\ reconnectTimeout' = LeastOf(unused)
        /\ timers' = cleared \cup { [ id |-> reconnectTimeout',
                                      delay |-> backoff(reconnectAttempts) ] }

\* 'close' of a socket (after an error, a lost connection or a close
\* handshake): onClose, lines 1379-1387
SocketClose(i) ==
    LET readyState == IF i = Current THEN ws ELSE replaced[i]
    IN  /\ readyState \in { "connecting", "open", "closing", "aborting" }
        /\ IF i = Current
           THEN ws' = "closed" /\ UNCHANGED replaced
           ELSE replaced' = RemoveAt(replaced, i) /\ UNCHANGED ws
        /\ isConnected' = FALSE
        /\ pingInterval' = FALSE
        /\ IF ~isShuttingDown
           THEN /\ scheduleReconnect
                /\ IF readyState \in { "connecting", "open" }
                   THEN failures' = Min(failures + 1, MaxFailures)
                   ELSE UNCHANGED failures
           ELSE UNCHANGED << timers, reconnectTimeout, failures >>
        /\ outbox' = << >>
        /\ noFrame
        /\ UNCHANGED process
        /\ UNCHANGED << now, passes, discoveryVars, reconnectAttempts,
                        marketCheckInterval, lastForceRefresh, isShuttingDown,
                        isStarted, stopPending, currentAssetIds, lastSub,
                        resubscribed, assetStates, writers, rowVars >>

\* the reconnect timer fires: the callback of lines 1401-1404
ReconnectTimer(t) ==
    /\ t \in timers
    /\ reconnectAttempts < MaxAttempts
    /\ timers' = timers \ { t }
    /\ reconnectAttempts' = reconnectAttempts + 1
    /\ BeginPass("refresh")
    /\ outbox' = << >>
    /\ noFrame
    /\ UNCHANGED process
    /\ UNCHANGED << now, replaced, discoveryVars, ws, isConnected,
                    reconnectTimeout, pingInterval, marketCheckInterval,
                    lastForceRefresh, isShuttingDown, isStarted, stopPending,
                    currentAssetIds, lastSub, resubscribed, failures,
                    assetStates, writers, rowVars >>

\* CSVWriter.flush, lines 784-816: the buffered rows go to the file
flush(w) == [w EXCEPT !.file = @ \o w.buffer, !.buffer = << >>]

\* CSVWriter.close, lines 818-828: flush, then end the stream
closeWriter(w) == [flush(w) EXCEPT !.ended = TRUE]

\* stop() up to its await, lines 953-972; the process stops the stream at
\* most once
Stop ==
    /\ ~isShuttingDown
    /\ isShuttingDown' = TRUE
    /\ timers' = clearTimeout(timers, reconnectTimeout)
    /\ pingInterval' = FALSE
    /\ marketCheckInterval' = FALSE
    /\ ws' = IF ws = "null" THEN ws ELSE closeSocket(ws)
    /\ writers' = [ t \in MarketTypes |-> closeWriter(writers[t]) ]
    /\ stopPending' = TRUE
    /\ outbox' = << >>
    /\ noFrame
    /\ UNCHANGED process
    /\ UNCHANGED << now, replaced, passes, discoveryVars, isConnected,
                    reconnectAttempts, reconnectTimeout, lastForceRefresh,
                    isStarted, currentAssetIds, lastSub, resubscribed, failures,
                    assetStates, rowVars >>

\* stop() after the writers' streams have ended, lines 974-975
StopDone ==
    /\ stopPending
    /\ stopPending' = FALSE
    /\ isStarted' = FALSE
    /\ outbox' = << >>
    /\ noFrame
    /\ UNCHANGED process
    /\ UNCHANGED << now, replaced, timers, passes, discoveryVars, ws,
                    isConnected, reconnectAttempts, reconnectTimeout,
                    pingInterval, marketCheckInterval, lastForceRefresh,
                    isShuttingDown, currentAssetIds, lastSub, resubscribed, failures,
                    assetStates, writers, rowVars >>

\* time passes.  A discovery pass and a socket handshake take seconds, a
\* reconnect timer at most a minute, and the clock's instants are a quarter
\* of an hour apart: the clock moves when no pass is in flight (so that the
\* `now` a pass read at its start, line 244, is the clock's), no timer is
\* pending and no socket is in a handshake
ClockTick ==
    /\ now < MaxNow * ClockStepMs
    /\ passes = << >>
    /\ timers = {}
    /\ ws \in { "null", "open", "closed" }
    /\ replaced = << >>
    /\ now' = now + ClockStepMs
    /\ outbox' = << >>
    /\ noFrame
    /\ UNCHANGED process
    /\ UNCHANGED << replaced, timers, passes, discoveryVars, connVars,
                    assetStates, writers, rowVars >>

(***************************************************************************)
(* Feed events, prices and journals                                        *)
(***************************************************************************)
\* 1.0 as a fixed-point price
PriceUnit == 10 * 1000 * 1000

\* a field the feed left out of an event
undefined == "undefined"

\* safeParseNumber on the literals of the feed: the value of a price or a
\* size in PriceUnit-ths, of a timestamp in milliseconds; null for
\* undefined, null, '' and what Number() turns into NaN
safeParseNumber(value) ==
    CASE value = "0" -> 0
      [] value = "5" -> 5 * PriceUnit
      [] value = "0.30" -> 3000000
      [] value = "0.45998" -> 4599800
      [] value = "0.46" -> 4600000
      [] value = "0.48" -> 4800000
      [] value = "0.50" -> 5000000
      [] value = "0.50002" -> 5000200
      [] value = "0.52" -> 5200000
      [] value = "0.5200004" -> 5200004
      [] value = "0.54" -> 5400000
      [] value = "1000" -> 1000
      [] value = "2500" -> 2500
      [] value = "5200" -> 5200
      [] value = "6100" -> 6100
      [] value = "7000" -> 7000
      [] OTHER -> Null

Abs(x) == IF x < 0 THEN 0 - x ELSE x

\* a rounding that keeps every digit
roundNothing(price) == price

\* Math.round(price * 1e6) / 1e6, half up
Round6(price) == ((price + 5) \div 10) * 10

\* toFixed(4): the four decimals, as a count of 1e-4
toFixed4(price) == (price + 500) \div 1000

\* computeMidPrice; the bids and asks of the feed events below have even sums
computeMidPrice(bestBid, bestAsk) ==
    IF bestBid # Null /\ bestAsk # Null /\ bestBid > 0 /\ bestAsk > 0
    THEN (bestBid + bestAsk) \div 2
    ELSE Null

\* getBestFromBook: the levels with a positive size, sorted by price
\* (descending for bids, ascending for asks; an unparsable price sorts as
\* 0); the price of the first
RECURSIVE validLevels(_)
validLevels(levels) ==
    IF levels = << >> THEN << >>
    ELSE LET size == safeParseNumber(Head(levels).size)
         IN  IF size # Null /\ size > 0
             THEN << Head(levels) >> \o validLevels(Tail(levels))
             ELSE validLevels(Tail(levels))

sortPrice(level) ==
    IF safeParseNumber(level.price) = Null THEN 0 ELSE safeParseNumber(level.price)

RECURSIVE firstSorted(_, _, _)
firstSorted(best, levels, isBid) ==
    IF levels = << >> THEN best
    ELSE LET l == Head(levels)
         IN  IF \/ isBid /\ sortPrice(l) > sortPrice(best)
                \/ ~isBid /\ sortPrice(l) < sortPrice(best)
             THEN firstSorted(l, Tail(levels), isBid)
             ELSE firstSorted(best, Tail(levels), isBid)

getBestFromBook(levels, isBid) ==
    LET valid == validLevels(levels)
    IN  IF valid = << >> THEN Null
        ELSE safeParseNumber(firstSorted(Head(valid), Tail(valid), isBid).price)

\* `x || 0` and `x || null` on a number or null
orZero(x) == IF x = Null THEN 0 ELSE x
orNull(x) == IF x = 0 THEN Null ELSE x

\* CSVWriter.addRow, lines 743-782: the writer after the call and the
\* result of the call
DEDUP_WINDOW_SIZE == 100

isTradeEntry(row) == row.watchEntry = "YES" \/ row.paperEntry = "YES"

rowKey(row) ==
    << "price", row.timestamp, toFixed4(row.priceUp), toFixed4(row.priceDown) >>

dedupeKey(row) ==
    IF isTradeEntry(row) THEN << "entry", row.timestamp, row.notes >>
    ELSE rowKey(row)

\* lines 769-772: past the window size, the newer half of the keys is kept
trimKeys(keys) ==
    IF Len(keys) > DEDUP_WINDOW_SIZE
    THEN SubSeq(keys, (Len(keys) \div 2) + 1, Len(keys))
    ELSE keys

\* a set of recent keys that holds no key
hasNoKey(keys, key) == FALSE

\* line 752: recentRowKeys.has
hasKey(keys, key) == \E i \in DOMAIN keys : keys[i] = key

\* an ordering guard that lets every row pass
neverTooOld(row, lastWrittenTimestamp) == FALSE

\* line 758: the row is out of order
tooOld(row, lastWrittenTimestamp) == row.timestamp < lastWrittenTimestamp - 1000

addRow(w, row) ==
    LET total == row.priceUp + row.priceDown
    IN  IF hasKey(w.recentRowKeys, dedupeKey(row))
        THEN [ w |-> w, ok |-> FALSE ]
        ELSE IF ~isTradeEntry(row) /\ tooOld(row, w.lastWrittenTimestamp)
        THEN [ w |-> w, ok |-> FALSE ]
        ELSE IF /\ row.priceUp > 0
                /\ row.priceDown > 0
                /\ Abs(total - PriceUnit) > PriceUnit \div 20
        THEN [ w |-> w, ok |-> FALSE ]
        ELSE [ w |-> [ w EXCEPT
                         !.recentRowKeys = trimKeys(Append(@, dedupeKey(row))),
                         !.lastWrittenTimestamp =
                             IF isTradeEntry(row) THEN @ ELSE row.timestamp,
                         !.buffer = Append(@, row) ],
               ok |-> TRUE ]

\* a pending observation, and none
PendingPrice(price, bid, ask, assetId, ts_ms) ==
    [ price |-> price, bid |-> bid, ask |-> ask, assetId |-> assetId,
      ts_ms |-> ts_ms ]

NoPrice == PendingPrice(Null, Null, Null, Null, Null)

getHistoryKey(marketType) ==
    CASE marketType = "btc-updown-15m" -> "BTC-15m"
      [] marketType = "bitcoin-up-or-down" -> "BTC-1h"
      [] marketType = "eth-updown-15m" -> "ETH-15m"
      [] OTHER -> "ETH-1h"

maxPriceHistorySize == 600

\* The handlers of a feed frame work on the logger's row state L:
\* [assetStates, pendingRows, writers, priceHistory, offers, emitted].
\* A call of addRow by writeCombinedRow is recorded in emitted with the
\* tokens of the two observations it was built from (pair).

\* a history that takes the prices of every row
storesAlways(ok) == TRUE

\* line 1353: the prices go to the history if the journal took the row
storesPrice(ok) == ok

\* writeCombinedRow, lines 1329-1366
writeCombinedRow(L, marketType, pending) ==
    IF marketType \notin DOMAIN L.writers THEN L
    ELSE LET tsMs == pending.lastUpdate
             priceUp == orZero(pending.up.price)
             priceDown == orZero(pending.down.price)
             row == [ timestamp |-> tsMs,
                      priceUp |-> priceUp, priceDown |-> priceDown,
                      upBid |-> orNull(pending.up.bid),
                      upAsk |-> orNull(pending.up.ask),
                      downBid |-> orNull(pending.down.bid),
                      downAsk |-> orNull(pending.down.ask),
                      entryType |-> "", watchEntry |-> "", paperEntry |-> "",
                      notes |-> "" ]
             r == addRow(L.writers[marketType], row)
             historyKey == getHistoryKey(marketType)
             history == IF historyKey \in DOMAIN L.priceHistory
                        THEN L.priceHistory[historyKey] ELSE << >>
             pushed == Append(history, [ timestamp |-> tsMs, priceUp |-> priceUp,
                                         priceDown |-> priceDown ])
         IN  [ L EXCEPT
                 !.writers[marketType] = r.w,
                 !.priceHistory =
                     IF storesPrice(r.ok)
                     THEN (historyKey :>
                             IF Len(pushed) > maxPriceHistorySize
                             THEN Tail(pushed) ELSE pushed) @@ @
                     ELSE @,
                 !.emitted = Append(@, [ marketType |-> marketType, row |-> row,
                                         accepted |-> r.ok,
                                         pair |-> << pending.up.assetId,
                                                     pending.down.assetId >> ]) ]

\* String.toUpperCase on the outcome labels
toUpperCase(label) ==
    CASE label = "Up" -> "UP"
      [] label = "Down" -> "DOWN"
      [] label = "Unknown" -> "UNKNOWN"
      [] OTHER -> label

\* a pairing test that never holds
pairNothing(up, down) == FALSE

\* a pairing test that always holds
pairAlways(up, down) == TRUE

\* a pairing test with the staleness threshold's tolerance
pairWithinStale(up, down) == Abs(up.ts_ms - down.ts_ms) <= 6000

\* lines 1312-1315: the two sides make one row
canPair(up, down) == Abs(up.ts_ms - down.ts_ms) <= 2000

STALE_THRESHOLD_MS == 5000

\* a buffer that keeps both sides when they do not pair
keepBothSides(pending) == pending

\* lines 1319-1325: of two sides too far apart to pair, the older is dropped
dropOlderSide(pending) ==
    IF pending.up.ts_ms < pending.down.ts_ms
    THEN [ pending EXCEPT !.up = NoPrice ]
    ELSE [ pending EXCEPT !.down = NoPrice ]

\* maybeWriteRow, lines 1261-1327
maybeWriteRow(L, assetId, price, bestBid, bestAsk, timestampStr) ==
    LET state == L.assetStates[assetId]
        roundedPrice == Round6(price)
        roundedLastPrice ==
            IF state.lastPrice # Null THEN Round6(state.lastPrice) ELSE Null
        tsMs == IF safeParseNumber(timestampStr) # Null
                THEN safeParseNumber(timestampStr) ELSE now
        market == getMarketByAssetId(currentMarkets, nextMarkets, assetId)
        token == IF market = NoMarket THEN 0
                 ELSE CHOOSE i \in DOMAIN Markets[market].tokens :
                          Markets[market].tokens[i].token_id = assetId
        outcomeLabel ==
            IF market = NoMarket THEN "Unknown"
            ELSE Markets[market].tokens[token].outcome
        marketType ==
            IF market = NoMarket THEN "Unknown" ELSE Markets[market].market_type
        pendingPrice == PendingPrice(roundedPrice, bestBid, bestAsk, assetId, tsMs)
        pending ==
            IF marketType \in DOMAIN L.pendingRows THEN L.pendingRows[marketType]
            ELSE [ up |-> NoPrice, down |-> NoPrice, lastUpdate |-> tsMs ]
        freshUp ==
            IF pending.up # NoPrice /\ tsMs - pending.up.ts_ms > STALE_THRESHOLD_MS
            THEN NoPrice ELSE pending.up
        freshDown ==
            IF pending.down # NoPrice /\ tsMs - pending.down.ts_ms > STALE_THRESHOLD_MS
            THEN NoPrice ELSE pending.down
        isUp == toUpperCase(outcomeLabel) = "UP"
        set == [ up |-> IF isUp THEN pendingPrice ELSE freshUp,
                 down |-> IF isUp THEN freshDown ELSE pendingPrice,
                 lastUpdate |-> tsMs ]
        offer(forwarded) ==
            [ assetId |-> assetId, price |-> price, marketType |-> marketType,
              isUp |-> isUp, ts_ms |-> tsMs, forwarded |-> forwarded ]
    IN  IF roundedPrice = roundedLastPrice
        THEN [ L EXCEPT !.offers = Append(@, offer(FALSE)) ]
        ELSE LET L1 == [ L EXCEPT
                           !.assetStates[assetId].lastPrice = roundedPrice,
                           !.offers = Append(@, offer(TRUE)) ]
             IN  IF set.up # NoPrice /\ set.down # NoPrice
                 THEN IF canPair(set.up, set.down)
                      THEN [ writeCombinedRow(L1, marketType, set) EXCEPT
                               !.pendingRows =
                                   (marketType :> [ set EXCEPT !.up = NoPrice,
                                                               !.down = NoPrice ])
                                   @@ @ ]
                      ELSE [ L1 EXCEPT
                               !.pendingRows =
                                   (marketType :> dropOlderSide(set)) @@ @ ]
                 ELSE [ L1 EXCEPT !.pendingRows = (marketType :> set) @@ @ ]

\* the handlers' test of line 1186, 1209, 1228 and 1246
isTracked(L, assetId) == assetId \in DOMAIN L.assetStates

\* handleBookEvent, lines 1184-1202
handleBookEvent(L, event) ==
    IF ~isTracked(L, event.asset_id) THEN L
    ELSE LET bestBid == getBestFromBook(event.bids, TRUE)
             bestAsk == getBestFromBook(event.asks, FALSE)
             L1 == [ L EXCEPT !.assetStates[event.asset_id] =
                        [ @ EXCEPT !.bestBid = bestBid, !.bestAsk = bestAsk,
                                   !.marketConditionId = event.market ] ]
             midPrice == computeMidPrice(bestBid, bestAsk)
             price == IF midPrice # Null THEN midPrice
                      ELSE L1.assetStates[event.asset_id].lastTradePrice
         IN  IF price # Null
             THEN maybeWriteRow(L1, event.asset_id, price, bestBid, bestAsk,
                                event.timestamp)
             ELSE L1

\* one iteration of the loop of handlePriceChangeEvent, lines 1207-1223
handlePriceChange(L, event, change) ==
    IF ~isTracked(L, change.asset_id) THEN L
    ELSE LET L1 == [ L EXCEPT !.assetStates[change.asset_id] =
                        [ @ EXCEPT
                            !.marketConditionId = event.market,
                            !.bestBid = IF change.best_bid # undefined
                                        THEN safeParseNumber(change.best_bid) ELSE @,
                            !.bestAsk = IF change.best_ask # undefined
                                        THEN safeParseNumber(change.best_ask) ELSE @ ] ]
             state == L1.assetStates[change.asset_id]
             midPrice == computeMidPrice(state.bestBid, state.bestAsk)
             price == IF midPrice # Null THEN midPrice ELSE state.lastTradePrice
         IN  IF price # Null
             THEN maybeWriteRow(L1, change.asset_id, price, state.bestBid,
                                state.bestAsk, event.timestamp)
             ELSE L1

\* handlePriceChangeEvent, lines 1204-1224
RECURSIVE handlePriceChangeEvent(_, _, _)
handlePriceChangeEvent(L, event, changes) ==
    IF changes = << >> THEN L
    ELSE handlePriceChangeEvent(handlePriceChange(L, event, Head(changes)),
                                event, Tail(changes))

\* handleLastTradePriceEvent, lines 1226-1242
handleLastTradePriceEvent(L, event) ==
    IF ~isTracked(L, event.asset_id) THEN L
    ELSE LET tradePrice == safeParseNumber(event.price)
             L1 == [ L EXCEPT !.assetStates[event.asset_id] =
                        [ @ EXCEPT !.lastTradePrice = tradePrice,
                                   !.marketConditionId = event.market ] ]
             state == L1.assetStates[event.asset_id]
             midPrice == computeMidPrice(state.bestBid, state.bestAsk)
             price == IF midPrice # Null THEN midPrice ELSE tradePrice
         IN  IF tradePrice = Null THEN L
             ELSE maybeWriteRow(L1, event.asset_id, price, state.bestBid,
                                state.bestAsk, event.timestamp)

\* handleBestBidAskEvent, lines 1244-1259
handleBestBidAskEvent(L, event) ==
    IF ~isTracked(L, event.asset_id) THEN L
    ELSE LET L1 == [ L EXCEPT !.assetStates[event.asset_id] =
                        [ @ EXCEPT !.bestBid = safeParseNumber(event.best_bid),
                                   !.bestAsk = safeParseNumber(event.best_ask),
                                   !.marketConditionId = event.market ] ]
             state == L1.assetStates[event.asset_id]
             midPrice == computeMidPrice(state.bestBid, state.bestAsk)
             price == IF midPrice # Null THEN midPrice ELSE state.lastTradePrice
         IN  IF price # Null
             THEN maybeWriteRow(L1, event.asset_id, price, state.bestBid,
                                state.bestAsk, event.timestamp)
             ELSE L1

\* processEvent, lines 1165-1182
processEvent(L, event) ==
    CASE event.event_type = "book" -> handleBookEvent(L, event)
      [] event.event_type = "price_change" ->
             handlePriceChangeEvent(L, event, event.price_changes)
      [] event.event_type = "last_trade_price" -> handleLastTradePriceEvent(L, event)
      [] event.event_type = "best_bid_ask" -> handleBestBidAskEvent(L, event)
      [] OTHER -> L

\* a null among the events of a frame, whose event_type cannot be read
\* (line 1166), and a price_change event without price_changes, which
\* cannot be iterated (line 1207): processEvent throws on both
NullEvent == [ json |-> "null" ]

throws(event) ==
    \/ event = NullEvent
    \/ event.event_type = "price_change" /\ "price_changes" \notin DOMAIN event

RECURSIVE processEvents(_, _)

\* a handler that skips the event that failed and goes on with the rest
skipFailed(L, rest) == processEvents(L, rest)

\* the catch of onMessage, lines 1160-1162: the rest of the frame is
\* dropped, what the earlier events did stays
catchError(L, rest) == L

\* the loop of onMessage, lines 1154-1159, over the events of a frame
processEvents(L, events) ==
    IF events = << >> THEN L
    ELSE IF throws(Head(events)) THEN catchError(L, Tail(events))
    ELSE processEvents(processEvent(L, Head(events)), Tail(events))

\* a frame whose text is not JSON: JSON.parse throws on it (line 1154)
NotJson == << [ raw |-> "{" ] >>

\* onMessage, lines 1152-1163: parse the frame and process its events; an
\* exception of either is caught and logged
onMessage(L, frame) ==
    IF frame = NotJson THEN L ELSE processEvents(L, frame)

\* `a ?? b` on a number or null
orElse(a, b) == IF a # Null THEN a ELSE b

\* getMidPrice, lines 1445-1458, on the logger's asset states
getMidPrice(states, tokenId) ==
    IF tokenId \notin DOMAIN states THEN Null
    ELSE LET state == states[tokenId]
         IN  IF /\ state.bestBid # Null /\ state.bestAsk # Null
                /\ state.bestBid > 0 /\ state.bestAsk > 0
             THEN (state.bestBid + state.bestAsk) \div 2
             ELSE orElse(state.lastPrice, orElse(state.lastTradePrice, Null))

\* The feed.  The market field of an event is the condition id of the
\* window of its assets.
BookEvent(assetId, bids, asks, timestamp) ==
    [ event_type |-> "book", asset_id |-> assetId, market |-> "0x01",
      bids |-> bids, asks |-> asks, timestamp |-> timestamp ]

PriceChangeEvent(changes, timestamp) ==
    [ event_type |-> "price_change", market |-> "0x01",
      price_changes |-> changes, timestamp |-> timestamp ]

LastTradePriceEvent(assetId, price, timestamp) ==
    [ event_type |-> "last_trade_price", asset_id |-> assetId,
      market |-> "0x01", price |-> price, timestamp |-> timestamp ]

BestBidAskEvent(assetId, bid, ask, timestamp) ==
    [ event_type |-> "best_bid_ask", asset_id |-> assetId, market |-> "0x01",
      best_bid |-> bid, best_ask |-> ask, timestamp |-> timestamp ]

Level(price, size) == [ price |-> price, size |-> size ]

\* The frames the feed can deliver, on the Up token (1) and the Down token
\* (2) of the first btc-updown-15m window: prices equal and different at 6
\* decimals, timestamps 1500 ms and 6000 ms apart, sides that sum to 1.00
\* and to 0.82; and a trade of the Up token (7) of the bitcoin-up-or-down
\* window, which outlives the 15-minute windows.
Frames ==
    { << LastTradePriceEvent(1, "0.52", "1000") >>,
      << LastTradePriceEvent(7, "0.52", "1000") >>,
      << LastTradePriceEvent(1, "0.5200004", "2500") >>,
      << BestBidAskEvent(2, "0.46", "0.50", "2500") >>,
      << LastTradePriceEvent(2, "0.30", "2500") >>,
      << BookEvent(2, << Level("0.46", "5"), Level("0.48", "0") >>,
                      << Level("0.54", "5"), Level("0.50", "5") >>, "7000") >>,
      << PriceChangeEvent(<< [ asset_id |-> 1, best_bid |-> "0.50",
                               best_ask |-> "0.54" ],
                             [ asset_id |-> 2, best_bid |-> "0.46",
                               best_ask |-> undefined ] >>, "2500") >> }

\* a socket on which the feed can still deliver a frame
canDeliver ==
    \/ ws \in { "open", "closing" }
    \/ \E i \in DOMAIN replaced : replaced[i] \in { "open", "closing" }

\* what a frame's handlers leave in the logger
deliver(L) ==
    /\ assetStates' = L.assetStates
    /\ pendingRows' = L.pendingRows
    /\ writers' = L.writers
    /\ priceHistory' = L.priceHistory
    /\ offers' = L.offers
    /\ emitted' = L.emitted

\* 'message' of a socket: onMessage, lines 1152-1163, with at most `frames`
\* frames delivered, and `inputs` frames and marker calls together
MessageUpTo(frame, frames, inputs) ==
    /\ canDeliver
    /\ delivered < frames
    /\ delivered + marks < inputs
    /\ delivered' = delivered + 1
    /\ inbox' = frame
    /\ deliver(onMessage([ assetStates |-> assetStates,
                            pendingRows |-> pendingRows,
                            writers |-> writers,
                            priceHistory |-> priceHistory,
                            offers |-> << >>, emitted |-> << >> ], frame))
    /\ marked' = << >>
    /\ outbox' = << >>
    /\ UNCHANGED << now, replaced, timers, passes, discoveryVars, connVars,
                    loggedTradeEntries, marks, markerRows, process >>

Message(frame) == MessageUpTo(frame, MaxFrames, MaxInputs)

\* The frames of the journal scenarios, on the same two tokens: both
\* sides in one frame at 0.52 and 0.48 stamped 7000; at 0.52001 and 0.47999
\* stamped 7000 (the same prices at 4 decimals); at 0.48 and 0.52 stamped
\* 2500; a last trade of the Up token at price 0 next to 0.46 for Down;
\* last trades at 0.52 and 0.30, which do not sum to one, stamped 7000;
\* and the frames that make the handler fail: one that is not JSON, one
\* with a null before a trade, one with a trade before a price_change
\* event that has no price_changes.
JournalFrames ==
    { << PriceChangeEvent(<< [ asset_id |-> 1, best_bid |-> "0.50",
                               best_ask |-> "0.54" ],
                             [ asset_id |-> 2, best_bid |-> "0.46",
                               best_ask |-> "0.50" ] >>, "7000") >>,
      << PriceChangeEvent(<< [ asset_id |-> 1, best_bid |-> "0.50002",
                               best_ask |-> "0.54" ],
                             [ asset_id |-> 2, best_bid |-> "0.45998",
                               best_ask |-> "0.50" ] >>, "7000") >>,
      << PriceChangeEvent(<< [ asset_id |-> 1, best_bid |-> "0.46",
                               best_ask |-> "0.50" ],
                             [ asset_id |-> 2, best_bid |-> "0.50",
                               best_ask |-> "0.54" ] >>, "2500") >>,
      << LastTradePriceEvent(1, "0", "2500"),
         LastTradePriceEvent(2, "0.46", "2500") >>,
      << LastTradePriceEvent(1, "0.52", "7000"),
         LastTradePriceEvent(2, "0.30", "7000") >>,
      NotJson,
      << NullEvent, LastTradePriceEvent(1, "0.52", "1000") >>,
      << LastTradePriceEvent(2, "0.48", "1000"),
         [ event_type |-> "price_change", market |-> "0x01",
           timestamp |-> "1000" ] >> }

\* getMarketTypeFromSlug, lines 1574-1590, on the slugs and titles of the
\* marker calls below: the text names bitcoin or ethereum, or neither, and
\* names a 15-minute window or not
getMarketTypeFromSlug(slug, title) ==
    CASE slug = "btc-updown-15m-0" -> "btc-updown-15m"
      [] slug = "bitcoin-up-or-down-january-1-12am-et" -> "bitcoin-up-or-down"
      [] slug = "eth-updown-15m-0" -> "eth-updown-15m"
      [] slug = "ethereum-up-or-down-january-1-12am-et" -> "ethereum-up-or-down"
      [] OTHER -> NullString

MAX_STALE_MS == 30000

\* the loop of findPriceAtTimestamp, lines 1599-1605: the first point of
\* the history closest to the target
RECURSIVE closestPoint(_, _, _)
closestPoint(closest, history, targetTimestamp) ==
    IF history = << >> THEN closest
    ELSE IF Abs(Head(history).timestamp - targetTimestamp)
               < Abs(closest.timestamp - targetTimestamp)
    THEN closestPoint(Head(history), Tail(history), targetTimestamp)
    ELSE closestPoint(closest, Tail(history), targetTimestamp)

NoPoint == [ timestamp |-> Null, priceUp |-> Null, priceDown |-> Null ]

\* findPriceAtTimestamp, lines 1592-1617
findPriceAtTimestamp(histories, historyKey, targetTimestamp) ==
    IF historyKey \notin DOMAIN histories THEN NoPoint
    ELSE IF histories[historyKey] = << >> THEN NoPoint
    ELSE LET closest == closestPoint(Head(histories[historyKey]),
                                     histories[historyKey], targetTimestamp)
         IN  IF Abs(closest.timestamp - targetTimestamp) <= MAX_STALE_MS
             THEN closest
             ELSE NoPoint

\* a test of the logged trade keys that finds none
neverLogged(entries, tradeKey) == FALSE

\* lines 1486 and 1536: the trade has been marked before
alreadyLogged(entries, tradeKey) == tradeKey \in entries

\* lines 1485 and 1535
tradeKey(kind, marketType, notes, transactionHash) ==
    IF transactionHash # undefined /\ transactionHash # ""
    THEN kind \o ":" \o transactionHash
    ELSE kind \o ":" \o marketType \o ":" \o notes

\* lines 1497-1511 and 1547-1561: the marker row
markerRow(kind, timestamp, priceUp, priceDown, notes) ==
    [ timestamp |-> timestamp, priceUp |-> priceUp, priceDown |-> priceDown,
      upBid |-> Null, upAsk |-> Null, downBid |-> Null, downAsk |-> Null,
      entryType |-> kind,
      watchEntry |-> IF kind = "WATCH" THEN "YES" ELSE "",
      paperEntry |-> IF kind = "PAPER" THEN "YES" ELSE "",
      notes |-> kind \o ": " \o (IF notes = undefined THEN "" ELSE notes) ]

\* The marker calls of the trading side: a call c is the arguments
\* [marketSlug, marketTitle, priceUp, priceDown, notes, transactionHash,
\* tradeTimestamp] (Null: no tradeTimestamp).
MarkerCall(slug, priceUp, priceDown, notes, transactionHash, tradeTimestamp) ==
    [ marketSlug |-> slug, marketTitle |-> "Up or Down",
      priceUp |-> priceUp, priceDown |-> priceDown, notes |-> notes,
      transactionHash |-> transactionHash, tradeTimestamp |-> tradeTimestamp ]

MarkerCalls ==
    { MarkerCall("btc-updown-15m-0", 0, 4600000, "a", "0xaa", 1000),
      MarkerCall("btc-updown-15m-0", 6200000, 4100000, "a", "0xbb", 1000),
      MarkerCall("btc-updown-15m-0", 5200000, 4800000, "b", "0xaa", 2500),
      MarkerCall("btc-updown-15m-0", 5200000, 4800000, "a", undefined, Null),
      MarkerCall("sol-updown-15m-0", 5200000, 4800000, "a", "0xcc", 1000) }

\* markWatchEntry, lines 1470-1515, and markPaperEntry, lines 1520-1565,
\* which differ in the kind only
markEntry(kind, c) ==
    LET marketType == getMarketTypeFromSlug(c.marketSlug, c.marketTitle)
        key == tradeKey(kind, marketType, c.notes, c.transactionHash)
        timestamp ==
            IF c.tradeTimestamp # Null /\ c.tradeTimestamp # 0
            THEN c.tradeTimestamp ELSE now
        prices == findPriceAtTimestamp(priceHistory, getHistoryKey(marketType),
                                       timestamp)
        finalPriceUp ==
            IF prices # NoPoint /\ prices.priceUp # 0
            THEN prices.priceUp ELSE c.priceUp
        finalPriceDown ==
            IF prices # NoPoint /\ prices.priceDown # 0
            THEN prices.priceDown ELSE c.priceDown
        row == markerRow(kind, timestamp, finalPriceUp, finalPriceDown, c.notes)
    IN  /\ delivered + marks < MaxInputs
        /\ marks' = marks + 1
        /\ inbox' = << >>
        /\ offers' = << >>
        /\ outbox' = << >>
        /\ IF marketType = NullString \/ marketType \notin DOMAIN writers
           THEN /\ marked' = << [ kind |-> kind, call |-> c, key |-> "",
                                  logged |-> FALSE ] >>
                /\ emitted' = << >>
                /\ UNCHANGED << writers, loggedTradeEntries, markerRows >>
           ELSE IF alreadyLogged(loggedTradeEntries, key)
           THEN /\ marked' = << [ kind |-> kind, call |-> c, key |-> key,
                                  logged |-> TRUE ] >>
                /\ emitted' = << >>
                /\ UNCHANGED << writers, loggedTradeEntries, markerRows >>
           ELSE LET r == addRow(writers[marketType], row)
                    before == IF key \in DOMAIN markerRows
                              THEN markerRows[key] ELSE 0
                IN  /\ marked' = << [ kind |-> kind, call |-> c, key |-> key,
                                      logged |-> FALSE ] >>
                    /\ loggedTradeEntries' = loggedTradeEntries \cup { key }
                    /\ writers' = [ writers EXCEPT ![marketType] = r.w ]
                    /\ emitted' = << [ marketType |-> marketType, row |-> row,
                                      accepted |-> r.ok ] >>
                    /\ markerRows' =
                           (key :> (before + (IF r.ok THEN 1 ELSE 0)))
                               @@ markerRows
        /\ UNCHANGED << now, replaced, timers, passes, discoveryVars, connVars,
                        assetStates, pendingRows, priceHistory, delivered,
                        process >>

markWatchEntry(c) == markEntry("WATCH", c)

markPaperEntry(c) == markEntry("PAPER", c)

\* the callback of a writer's flush interval, lines 736-741; close() clears
\* the interval
FlushInterval(marketType) ==
    /\ ~writers[marketType].ended
    /\ writers[marketType].buffer # << >>
    /\ writers' = [ writers EXCEPT ![marketType] = flush(@) ]
    /\ outbox' = << >>
    /\ noFrame
    /\ UNCHANGED process
    /\ UNCHANGED << now, replaced, timers, passes, discoveryVars, connVars,
                    assetStates, rowVars >>

Next ==
    \/ Start
    \/ \E i \in 1..Len(passes) : \E raw \in Responses : FetchDone(i, raw)
    \/ PollTick
    \/ \E i \in 0..Len(replaced) : SocketOpen(i)
    \/ \E i \in 0..Len(replaced) : SocketClose(i)
    \/ \E t \in timers : ReconnectTimer(t)
    \/ Stop
    \/ StopDone
    \/ ClockTick

Spec == Init /\ [][Next]_vars

\* The discovery scenarios: the stream is constructed at one of these
\* instants (the start of a 15-minute slot, half a second before the next
\* slot and the next hour, and the start of the next slot) and its first
\* pass finds the catalog answering with one of these lists: all windows of
\* the hour and of the next, the two bitcoin-up-or-down windows that are
\* not the current hour's, the next 15-minute window with the
\* ethereum-up-or-down one, the late 15-minute window with the next one, or
\* the lists of Responses.
DiscoveryInstants == { 0, 899500, 900000, 3599500 }

Catalogs ==
    { << 4, 6, 5, 1, 2, 3 >>, << 6, 7 >>, << 5, 2 >>, << 8, 2 >> } \cup Responses

InitDiscovery == \E instant \in DiscoveryInstants : InitAt(instant)

NextDiscovery ==
    \/ Start
    \/ \E i \in 1..Len(passes) : \E raw \in Catalogs : FetchRecorded(i, raw)
    \/ \E i \in 0..Len(replaced) : SocketOpen(i)
    \/ PollTick
    \/ ClockTick

SpecDiscovery == InitDiscovery /\ [][NextDiscovery]_vars

\* The rotation scenarios: the stream is constructed at the start of an
\* hour or half a second before the next, runs its poll and is stopped,
\* and the catalog answers with all windows of the hour and of the next,
\* with the two bitcoin-up-or-down windows that are not the current hour's,
\* or with nothing.
RotationInstants == { 0, 3599500 }

RotationCatalogs == { << 4, 6, 5, 1, 2, 3 >>, << 6, 7 >>, << >> }

InitRotation == \E instant \in RotationInstants : InitAt(instant)

NextRotation ==
    \/ Start
    \/ \E i \in 1..Len(passes) : \E raw \in RotationCatalogs : FetchDone(i, raw)
    \/ \E i \in 0..Len(replaced) : SocketOpen(i)
    \/ PollTick
    \/ ClockTick
    \/ Stop
    \/ StopDone

\* the poll interval fires, fetches return, time passes
SpecRotation ==
    /\ InitRotation
    /\ [][NextRotation]_vars
    /\ WF_vars(PollTick)
    /\ WF_vars(ClockTick)
    /\ \A id \in PassIds :
           WF_vars(\E i \in 1..Len(passes) : \E raw \in RotationCatalogs :
                       passes[i].id = id /\ FetchDone(i, raw))

\* the stream while it runs, with the feed delivering frames
NextRow ==
    \/ Start
    \/ \E i \in 1..Len(passes) : \E raw \in Responses : FetchDone(i, raw)
    \/ PollTick
    \/ \E i \in 0..Len(replaced) : SocketOpen(i)
    \/ ClockTick
    \/ \E frame \in Frames : Message(frame)

SpecRow == Init /\ [][NextRow]_vars

\* the stream with the feed, the marker calls of the trading side, the
\* journals' flush intervals and the shutdown
NextJournal ==
    \/ Start
    \/ \E i \in 1..Len(passes) : \E raw \in Responses : FetchDone(i, raw)
    \/ \E i \in 0..Len(replaced) : SocketOpen(i)
    \/ \E i \in 0..Len(replaced) : SocketClose(i)
    \/ \E frame \in JournalFrames : Message(frame)
    \/ \E c \in MarkerCalls : markWatchEntry(c)
    \/ \E c \in MarkerCalls : markPaperEntry(c)
    \/ \E marketType \in MarketTypes : FlushInterval(marketType)
    \/ Stop
    \/ StopDone

SpecJournal == Init /\ [][NextJournal]_vars



\* The overlap scenarios: the rotation poll fires again while the call of
\* discoverAndConnect of an earlier tick is still awaiting the catalog (the
\* interval's callback is async, lines 1071-1090, and nothing keeps two
\* calls apart), with at most MaxOverlap calls in flight.
MaxOverlap == 2

NextOverlap ==
    \/ Start
    \/ \E i \in 1..Len(passes) : \E raw \in Responses : FetchOrdered(i, raw)
    \/ PollTickUpTo(MaxOverlap)
    \/ \E i \in 0..Len(replaced) : SocketOpen(i)
    \/ ClockTick

SpecOverlap == Init /\ [][NextOverlap]_vars
\* The pairing scenarios: last trades stamped 1000 on the Up and the Down
\* token of the current btc-updown-15m window (tokens 1 and 2) and of its
\* pre-subscribed next window (tokens 3 and 4).
PairFrames ==
    { << LastTradePriceEvent(1, "0.52", "1000") >>,
      << LastTradePriceEvent(2, "0.48", "1000") >>,
      << LastTradePriceEvent(3, "0.54", "1000") >>,
      << LastTradePriceEvent(4, "0.46", "1000") >> }

NextPair ==
    \/ Start
    \/ \E i \in 1..Len(passes) : \E raw \in Responses : FetchDone(i, raw)
    \/ PollTick
    \/ \E i \in 0..Len(replaced) : SocketOpen(i)
    \/ ClockTick
    \/ \E frame \in PairFrames : Message(frame)

SpecPair == Init /\ [][NextPair]_vars

\* The ordering scenarios: three frames with a last trade on both tokens of
\* the btc-updown-15m window, stamped 7000, 6100 and 5200 (each 900 ms
\* before the one before), at prices that sum to one and change from frame
\* to frame; at most MaxRun frames are delivered.
MaxRun == 3

OrderFrames ==
    { << LastTradePriceEvent(1, "0.52", "7000"),
         LastTradePriceEvent(2, "0.48", "7000") >>,
      << LastTradePriceEvent(1, "0.54", "6100"),
         LastTradePriceEvent(2, "0.46", "6100") >>,
      << LastTradePriceEvent(1, "0.50", "5200"),
         LastTradePriceEvent(2, "0.50", "5200") >> }

NextOrder ==
    \/ Start
    \/ \E i \in 1..Len(passes) : \E raw \in Responses : FetchDone(i, raw)
    \/ \E i \in 0..Len(replaced) : SocketOpen(i)
    \/ \E frame \in OrderFrames : MessageUpTo(frame, MaxRun, MaxRun)
    \/ \E marketType \in MarketTypes : FlushInterval(marketType)

SpecOrder == Init /\ [][NextOrder]_vars
\* The process.  main() of index.ts installs one handler for SIGINT and
\* SIGTERM, lines 339-347: it awaits PolymarketBot.stop() and calls
\* process.exit.  PolymarketBot.stop, lines 297-327, stops the
\* configuration watcher and the dashboard and awaits disconnectDB(); it
\* makes no call on the price stream, and nothing else in the program
\* calls the stream's stop().
alive == process # "exited"

\* SIGINT or SIGTERM: the handler runs PolymarketBot.stop() up to its await
Signal ==
    /\ alive
    /\ process' = "stopping"
    /\ outbox' = << >>
    /\ noFrame
    /\ UNCHANGED << now, replaced, timers, passes, discoveryVars, connVars,
                    assetStates, writers, rowVars >>

\* disconnectDB() has settled: PolymarketBot.stop() returns and the handler
\* calls process.exit(0), lines 341 and 346
Exit ==
    /\ process = "stopping"
    /\ process' = "exited"
    /\ outbox' = << >>
    /\ noFrame
    /\ UNCHANGED << now, replaced, timers, passes, discoveryVars, connVars,
                    assetStates, writers, rowVars >>

\* The signal scenarios: the stream starts on import, discovers, connects,
\* takes the frames of the journal scenarios and flushes on its timer while
\* the process is alive; a signal may arrive at any time.
NextSignal ==
    \/ alive /\ Start
    \/ \E i \in 1..Len(passes) : \E raw \in Responses :
           alive /\ FetchDone(i, raw)
    \/ \E i \in 0..Len(replaced) : alive /\ SocketOpen(i)
    \/ \E frame \in JournalFrames : alive /\ Message(frame)
    \/ \E marketType \in MarketTypes : alive /\ FlushInterval(marketType)
    \/ Signal
    \/ Exit

SpecSignal == Init /\ [][NextSignal]_vars

\* timers fire, fetches return, close handshakes complete, time passes
FairSpec ==
    /\ Spec
    /\ WF_vars(ClockTick)
    /\ WF_vars(\E t \in timers : ReconnectTimer(t))
    /\ \A id \in PassIds :
           WF_vars(\E i \in 1..Len(passes) : \E raw \in Responses :
                       passes[i].id = id /\ FetchDone(i, raw))
    /\ WF_vars(PollTick)
    /\ WF_vars(\E i \in 0..Len(replaced) :
                   /\ (IF i = Current THEN ws ELSE replaced[i])
                          \in { "closing", "aborting" }
                   /\ SocketClose(i))

(***************************************************************************)
(* Properties of the connection manager                                    *)
(***************************************************************************)
\* sockets that are connecting or open and were not asked to close
LiveSockets ==
    (IF ws \in { "connecting", "open" } THEN 1 ELSE 0)
    + Cardinality({ i \in DOMAIN replaced : replaced[i] \in { "connecting", "open" } })

C2_BackoffFollowsFailures ==
    [][ failures' = failures + 1 =>
          \E t \in timers' :
              /\ t.id = reconnectTimeout'
              /\ t.delay = Min(RECONNECT_BACKOFF_MS * Pow2(failures' - 1),
                               MAX_RECONNECT_BACKOFF_MS) ]_vars

\* C3: from a successful open until the next failure of the socket the
\* attempt counter is 0
C3_CounterZeroWhileOpen ==
    ws = "open" => reconnectAttempts = 0

\* C4: at most one reconnect timer is pending
C4_OneReconnectTimer ==
    Cardinality(timers) <= 1

\* two socket closes in a row, no timer callback in between: one timer
C4_Witness ==
    /\ failures = 2
    /\ reconnectAttempts = 0
    /\ Cardinality(timers) = 1

\* C5: a reconciliation that changes the tracked set while the socket is
\* open and the connected flag is set sends exactly one subscription frame,
\* listing the new set, on that socket; it closes no socket and creates none
C5_ResubscribeInPlace ==
    [][ (currentAssetIds' # currentAssetIds /\ ws = "open" /\ isConnected) =>
          /\ outbox' = << subscribeMsg(currentAssetIds') >>
          /\ ws' = ws
          /\ replaced' = replaced ]_vars

\* the open socket has just been resubscribed in place to a new set
C5_Witness ==
    /\ resubscribed
    /\ ws = "open"
    /\ outbox = << subscribeMsg(currentAssetIds) >>
    /\ replaced = << >>

\* C6 as stated: the last subscription of an open socket lists the tracked
\* set, and every change of the tracked set comes with a resubscription of
\* the open socket or leaves a socket that will subscribe when it opens
C6_SubscriptionTracksSet ==
    /\ [](ws = "open" => lastSub = currentAssetIds)
    /\ [][ currentAssetIds' # currentAssetIds =>
              \/ ws' = "open" /\ outbox' = << subscribeMsg(currentAssetIds') >>
              \/ ws' = "connecting" ]_vars

\* C6 amended: the same, for the changes of the tracked set made while
\* shutdown has not been requested
C6_SubscriptionTracksSetUntilShutdown ==
    /\ [](ws = "open" => lastSub = currentAssetIds)
    /\ [][ (currentAssetIds' # currentAssetIds /\ ~isShuttingDown) =>
              \/ ws' = "open" /\ outbox' = << subscribeMsg(currentAssetIds') >>
              \/ ws' = "connecting" ]_vars

\* an open socket whose tracked set was changed after its open handler ran
C6_Witness ==
    /\ ws = "open"
    /\ resubscribed
    /\ lastSub = currentAssetIds
    /\ ~isShuttingDown

\* C7: at most one socket is live
C7_OneLiveSocket ==
    LiveSockets <= 1

\* a new socket exists while the one it replaced is still closing
C7_Witness ==
    /\ ws = "connecting"
    /\ replaced # << >>
    /\ LiveSockets = 1

(***************************************************************************)
(* Properties of the discovery and of the tracked set                      *)
(***************************************************************************)
\* the window of the catalog that a token id belongs to
windowOf(assetId) == CHOOSE m \in MarketIds : assetId \in TokensOf(m)

\* C18: a token id leaves the tracked set only when another window has
\* become the current window of its market type; a pass that does not
\* resolve the type leaves the type's token ids tracked
C18_DroppedOnlyWhenSuperseded ==
    [][ \A a \in currentAssetIds \ currentAssetIds' :
            LET marketType == Markets[windowOf(a)].market_type
            IN  /\ currentMarkets'[marketType] # NoMarket
                /\ currentMarkets'[marketType] # windowOf(a) ]_vars

\* C19: each market type has at most one current window, a window of that
\* type, and the window cached as next for a type is never its current one
C19_OneCurrentPerType ==
    \A t \in MarketTypes :
        /\ currentMarkets[t] # NoMarket =>
               /\ Markets[currentMarkets[t]].market_type = t
               /\ \A u \in MarketTypes \ { t } :
                      currentMarkets[u] = NoMarket
                      \/ Markets[currentMarkets[u]].condition_id
                             # Markets[currentMarkets[t]].condition_id
        /\ (currentMarkets[t] # NoMarket /\ nextMarkets[t] # NoMarket) =>
               Markets[nextMarkets[t]].condition_id
                   # Markets[currentMarkets[t]].condition_id

\* all four types are resolved: one has a next window cached, and one has
\* a window that has not started yet for current, which the raw list held
\* twice
C19_Witness ==
    /\ \A t \in MarketTypes : currentMarkets[t] # NoMarket
    /\ nextMarkets["btc-updown-15m"] # NoMarket
    /\ Markets[currentMarkets["ethereum-up-or-down"]].startMs > now + 1000
    /\ nextMarkets["ethereum-up-or-down"] = NoMarket

\* C29: a market type that has a current window comes to have none only in
\* the step in which a discovery pass returns from its last attempt; no
\* attempt that the pass goes on from leaves a type unset that was set
C29_UnsetOnlyAfterExhaustedPass ==
    [][ \A t \in MarketTypes :
            (currentMarkets[t] # NoMarket /\ currentMarkets'[t] = NoMarket) =>
                /\ Len(passes') < Len(passes)
                /\ \E i \in DOMAIN passes :
                       /\ passes[i].id \notin { passes'[j].id : j \in DOMAIN passes' }
                       /\ passes[i].attempt = maxRetries ]_vars

\* the token ids of the windows the maps hold
resolvedAssets(cur, nxt) ==
    UNION { TokensOf(m) : m \in { cur[t] : t \in MarketTypes } \ { NoMarket } }
    \cup UNION { TokensOf(m) : m \in { nxt[t] : t \in MarketTypes } \ { NoMarket } }

\* C20: a discovery pass makes at most 3 fetch attempts and goes on to
\* another one only with fewer than 4 types resolved; every pass in flight
\* returns;
\* and when it returns with at least one type resolved, the tracked set
\* becomes the token ids of the resolved windows and, unless the stream is
\* shutting down, a tracked set that changed is subscribed to: in place, or
\* by a new socket
C20_PassTerminatesWithPartialResult ==
    /\ [](\A i \in DOMAIN passes : passes[i].attempt \in 1..3)
    /\ [][ (Len(passes') = Len(passes) /\ passes' # passes) =>
              MapSize(currentMarkets') < 4 ]_vars
    /\ [][ (Len(passes') < Len(passes) /\ MapSize(currentMarkets') >= 1) =>
              /\ currentAssetIds' = resolvedAssets(currentMarkets', nextMarkets')
              /\ (currentAssetIds' # currentAssetIds /\ ~isShuttingDown) =>
                     \/ ws' = "connecting"
                     \/ ws' = "open"
                        /\ outbox' = << subscribeMsg(currentAssetIds') >> ]_vars
    /\ \A id \in PassIds : (id \in inFlight) ~> (id \notin inFlight)

\* a pass has returned with one type of four resolved, and the stream
\* connects for the token ids of that type
C20_Witness ==
    /\ passes = << >>
    /\ MapSize(currentMarkets) = 1
    /\ currentAssetIds = resolvedAssets(currentMarkets, nextMarkets)
    /\ currentAssetIds # {}
    /\ ws = "connecting"
    /\ ~isShuttingDown

\* a step in which an attempt of a discovery pass has resolved the windows
attemptDone == passes' # passes /\ Len(passes') <= Len(passes)

\* the candidates of a market type in a fetched list
candidates(list, t) ==
    { m \in { list[i] : i \in DOMAIN list } : Markets[m].market_type = t }

\* the start, in seconds, of the 15-minute grid slot of the clock
slotStartSec == (now \div 900000) * 900

\* the candidate is not one that the slug test of the 15-minute types
\* sets aside (see C24)
inSlot(m) ==
    \/ Markets[m].market_type \notin { "btc-updown-15m", "eth-updown-15m" }
    \/ Markets[m].slugTs = NoSlugTs
    \/ Markets[m].slugTs = slotStartSec

\* the candidates that have started (within the buffer of 1000 ms) and not
\* ended
startedOf(list, t) ==
    { m \in candidates(list, t) :
        inSlot(m) /\ Markets[m].endMs > now /\ Markets[m].startMs <= now + 1000 }

\* C22: after an attempt, for each market type that has a candidate with
\* endTime > now and startTime <= now + 1000, the current window is one of
\* these candidates and none of them starts later than it (for a 15-minute
\* type, the candidates are those of the current grid slot)
C22_CurrentIsLatestStarted ==
    [][ attemptDone =>
          \A t \in MarketTypes :
              startedOf(fetched', t) # {} =>
                  /\ currentMarkets'[t] \in startedOf(fetched', t)
                  /\ \A m \in startedOf(fetched', t) :
                         Markets[m].startMs
                             <= Markets[currentMarkets'[t]].startMs ]_vars

\* C23: after an attempt, a window with startTime > now + 1000 is the
\* current one of a market type only if the type has no candidate that has
\* started and not ended
C23_FutureOnlyWithoutStarted ==
    [][ attemptDone =>
          \A t \in MarketTypes :
              ( /\ currentMarkets'[t] # NoMarket
                /\ Markets[currentMarkets'[t]].startMs > now + 1000 ) =>
                  startedOf(fetched', t) = {} ]_vars

laterOf(list, t, cur) ==
    { m \in candidates(list, t) : Markets[m].startMs > now /\ m # cur[t] }

\* C27: after an attempt, for each market type that has a candidate with
\* startTime > now other than the current window, the next window is the
\* one of these candidates that starts first
C27_NextIsEarliestLater ==
    [][ attemptDone =>
          \A t \in MarketTypes :
              laterOf(fetched', t, currentMarkets') # {} =>
                  /\ nextMarkets'[t] \in laterOf(fetched', t, currentMarkets')
                  /\ \A m \in laterOf(fetched', t, currentMarkets') :
                         Markets[nextMarkets'[t]].startMs
                             <= Markets[m].startMs ]_vars

\* the triggers of the rotation poll: a current window with less than 60 s
\* left, one that has ended, a 15-minute one with more than 16 minutes
\* left, an hourly one with more than 61 minutes left, or more than 5
\* minutes since the last refresh the poll triggered
pollTrigger ==
    \/ \E t \in MarketTypes :
           /\ currentMarkets[t] # NoMarket
           /\ LET left == Markets[currentMarkets[t]].endMs - now
              IN  \/ left < 60 * 1000
                  \/ now > Markets[currentMarkets[t]].endMs
                  \/ t \in { "btc-updown-15m", "eth-updown-15m" }
                     /\ left > 16 * 60 * 1000
                  \/ t \in { "bitcoin-up-or-down", "ethereum-up-or-down" }
                     /\ left > 61 * 60 * 1000
    \/ now - lastForceRefresh > 5 * 60 * 1000

\* a step in which the poll has begun a discovery pass
pollStep ==
    /\ Len(passes') = Len(passes) + 1
    /\ passes'[Len(passes')].caller = "refresh"
    /\ reconnectAttempts' = reconnectAttempts

eventAssets(event) ==
    IF event.event_type = "price_change"
    THEN { event.price_changes[i].asset_id : i \in DOMAIN event.price_changes }
    ELSE { event.asset_id }

frameAssets(frame) == UNION { eventAssets(frame[i]) : i \in DOMAIN frame }

\* a price at 6 decimals
at6(price) == ((price + 5) \div 10) * 10

\* the price last forwarded for the asset of the k-th offer of a frame
\* before that offer: by an earlier offer of the frame, or else the one
\* recorded in the asset's state when the frame arrived
lastForwarded(os, k, states) ==
    LET earlier == { j \in 1..(k - 1) :
                       os[j].assetId = os[k].assetId /\ os[j].forwarded }
    IN  IF earlier = {} THEN states[os[k].assetId].lastPrice
        ELSE at6(os[CHOOSE j \in earlier : \A i \in earlier : i <= j].price)

\* C8: a frame whose events all refer to asset ids outside the tracked set
\* changes nothing: no asset state, no pending observation, no journal, no
\* price history; and no frame creates an asset state or offers a price for
\* an id outside the tracked set
C8_UntrackedEventIsNoOp ==
    [][ delivered' # delivered =>
          /\ DOMAIN assetStates' = DOMAIN assetStates
          /\ \A k \in DOMAIN offers' : offers'[k].assetId \in currentAssetIds
          /\ frameAssets(inbox') \cap currentAssetIds = {} =>
                /\ assetStates' = assetStates
                /\ pendingRows' = pendingRows
                /\ writers' = writers
                /\ priceHistory' = priceHistory
                /\ offers' = << >>
                /\ emitted' = << >> ]_vars

\* a frame for the tokens of the first window has just arrived after the
\* rotation removed them from the tracked set
C8_Witness ==
    /\ inbox # << >>
    /\ frameAssets(inbox) \cap currentAssetIds = {}
    /\ currentAssetIds # {}
    /\ now > 0

\* C9: a derived price is forwarded to the row assembler exactly when it
\* differs, at 6 decimals, from the price last forwarded for its asset; a
\* frame none of whose prices is forwarded leaves the pending observations
\* and the journals as they were
C9_ForwardOnlyChanges ==
    [][ delivered' # delivered =>
          /\ \A k \in DOMAIN offers' :
                 offers'[k].forwarded <=>
                     LET last == lastForwarded(offers', k, assetStates)
                     IN  last = Null \/ at6(offers'[k].price) # at6(last)
          /\ (\A k \in DOMAIN offers' : ~offers'[k].forwarded) =>
                 /\ pendingRows' = pendingRows
                 /\ writers' = writers ]_vars

\* a second update of an asset has just been dropped: its price differs
\* from the one last forwarded, but not at 6 decimals
C9_Witness ==
    /\ Len(offers) = 1
    /\ ~offers[1].forwarded
    /\ offers[1].price # assetStates[offers[1].assetId].lastPrice
    /\ at6(offers[1].price) = assetStates[offers[1].assetId].lastPrice

\* the observation of the other side that the offer o finds buffered
otherSide(o, pending) ==
    IF o.marketType \notin DOMAIN pending THEN NoPrice
    ELSE IF o.isUp THEN pending[o.marketType].down
    ELSE pending[o.marketType].up

\* C10: when a forwarded observation finds the other side of its market
\* type buffered with a timestamp at most 2000 ms from its own, exactly one
\* combined row carrying both prices is handed to the journal of that type,
\* and both buffers are cleared
C10_PairedWithin2000 ==
    [][ ( /\ delivered' # delivered
          /\ Len(offers') = 1
          /\ offers'[1].forwarded
          /\ otherSide(offers'[1], pendingRows) # NoPrice
          /\ otherSide(offers'[1], pendingRows).ts_ms - offers'[1].ts_ms <= 2000
          /\ offers'[1].ts_ms - otherSide(offers'[1], pendingRows).ts_ms <= 2000 ) =>
          LET o == offers'[1]
              other == otherSide(o, pendingRows)
          IN  /\ Len(emitted') = 1
              /\ emitted'[1].marketType = o.marketType
              /\ emitted'[1].row.priceUp =
                     IF o.isUp THEN at6(o.price) ELSE other.price
              /\ emitted'[1].row.priceDown =
                     IF o.isUp THEN other.price ELSE at6(o.price)
              /\ pendingRows'[o.marketType].up = NoPrice
              /\ pendingRows'[o.marketType].down = NoPrice ]_vars

\* an Up and a Down observation 1500 ms apart have just made one row
C10_Witness ==
    /\ Len(offers) = 1
    /\ Len(emitted) = 1
    /\ emitted[1].row.priceUp > 0
    /\ emitted[1].row.priceDown > 0
    /\ pendingRows[emitted[1].marketType].up = NoPrice
    /\ pendingRows[emitted[1].marketType].down = NoPrice

\* C11: when a forwarded observation finds the other side of its market
\* type buffered with a timestamp more than 2000 ms from its own, no row is
\* handed to a journal, the side with the older timestamp is discarded and
\* the side with the newer timestamp stays buffered
C11_StaleSideDiscarded ==
    [][ ( /\ delivered' # delivered
          /\ Len(offers') = 1
          /\ offers'[1].forwarded
          /\ otherSide(offers'[1], pendingRows) # NoPrice
          /\ Abs(otherSide(offers'[1], pendingRows).ts_ms - offers'[1].ts_ms)
                 > 2000 ) =>
          LET o == offers'[1]
              other == otherSide(o, pendingRows)
              mine == PendingPrice(at6(o.price),
                                   assetStates'[o.assetId].bestBid,
                                   assetStates'[o.assetId].bestAsk,
                                   o.assetId, o.ts_ms)
              newer == IF o.ts_ms > other.ts_ms THEN mine ELSE other
              after == pendingRows'[o.marketType]
          IN  /\ emitted' = << >>
              /\ writers' = writers
              /\ IF (o.ts_ms > other.ts_ms) = o.isUp
                 THEN after.up = newer /\ after.down = NoPrice
                 ELSE after.down = newer /\ after.up = NoPrice ]_vars

\* an Up observation stamped 2500 has just met the buffered Down
\* observation stamped 7000: the Up one, the older, is discarded
C11_Witness ==
    /\ Len(offers) = 1
    /\ offers[1].forwarded
    /\ offers[1].isUp
    /\ offers[1].ts_ms = 2500
    /\ emitted = << >>
    /\ offers[1].marketType \in DOMAIN pendingRows
    /\ pendingRows[offers[1].marketType].up = NoPrice
    /\ pendingRows[offers[1].marketType].down # NoPrice
    /\ pendingRows[offers[1].marketType].down.ts_ms = 7000

\* C26: when a forwarded observation finds the other side of its market
\* type buffered with a timestamp more than 5000 ms before its own, the
\* buffered side is dropped and no row is handed to a journal; and no row
\* is made of two observations more than 5000 ms apart
C26_StaleBufferedSideDropped ==
    [][ ( /\ delivered' # delivered
          /\ Len(offers') = 1
          /\ offers'[1].forwarded
          /\ otherSide(offers'[1], pendingRows) # NoPrice ) =>
          LET o == offers'[1]
              other == otherSide(o, pendingRows)
              after == pendingRows'[o.marketType]
          IN  /\ o.ts_ms - other.ts_ms > STALE_THRESHOLD_MS =>
                     /\ emitted' = << >>
                     /\ writers' = writers
                     /\ (IF o.isUp THEN after.down ELSE after.up) = NoPrice
                     /\ (IF o.isUp THEN after.up ELSE after.down).ts_ms = o.ts_ms
              /\ emitted' # << >> =>
                     Abs(o.ts_ms - other.ts_ms) <= STALE_THRESHOLD_MS ]_vars

\* a Down observation stamped 7000 has just met the Up observation stamped
\* 1000 that was buffered: the Up one is dropped, no row is made
C26_Witness ==
    /\ Len(offers) = 1
    /\ offers[1].forwarded
    /\ ~offers[1].isUp
    /\ offers[1].ts_ms = 7000
    /\ assetStates[1].lastPrice # Null
    /\ emitted = << >>
    /\ pendingRows[offers[1].marketType].up = NoPrice
    /\ pendingRows[offers[1].marketType].down.ts_ms = 7000

\* C17: a reconciliation of the tracked set leaves the state of every asset
\* id that is in the old and in the new set as it was, and drops the state
\* of exactly the ids that are not in the new set
C17_ReconcileKeepsCommonStates ==
    [][ delivered' = delivered =>
          /\ DOMAIN assetStates' = currentAssetIds'
          /\ \A a \in DOMAIN assetStates \cap currentAssetIds' :
                 assetStates'[a] = assetStates[a] ]_vars

\* the rotation of the 15-minute windows has just dropped the tokens of the
\* first windows and resubscribed in place, and the state that a trade
\* gave the hourly token before is still there
C17_Witness ==
    /\ now = ClockStepMs
    /\ outbox = << subscribeMsg(currentAssetIds) >>
    /\ resubscribed
    /\ 1 \notin currentAssetIds
    /\ 3 \in currentAssetIds
    /\ 7 \in currentAssetIds
    /\ assetStates[7].lastTradePrice # Null
    /\ assetStates[3] = NullAssetState

\* C21: the mid price returned for a token id is (bestBid + bestAsk)/2 when
\* the asset's state has both and both are positive, otherwise the state's
\* lastTradePrice (null when there is none), and null for a token id that
\* is not tracked
C21_MidPriceOrLastTrade ==
    \A tokenId \in TokenIds :
        getMidPrice(assetStates, tokenId) =
            IF tokenId \notin DOMAIN assetStates THEN Null
            ELSE LET state == assetStates[tokenId]
                 IN  IF /\ state.bestBid # Null /\ state.bestAsk # Null
                        /\ state.bestBid > 0 /\ state.bestAsk > 0
                     THEN (state.bestBid + state.bestAsk) \div 2
                     ELSE state.lastTradePrice

(***************************************************************************)
(* Properties of the journals                                              *)
(***************************************************************************)
\* the rows a journal has accepted: those written to its file, then those
\* in its buffer
journal(marketType) == writers[marketType].file \o writers[marketType].buffer

\* C12: every row a journal has accepted, price row or marker row, has
\* prices that sum to 1.0 within 0.05
C12_AcceptedRowsSumToOne ==
    \A marketType \in MarketTypes :
        \A k \in DOMAIN journal(marketType) :
            LET row == journal(marketType)[k]
            IN  Abs(row.priceUp + row.priceDown - PriceUnit) <= PriceUnit \div 20

\* the key of a row: (timestamp, notes) of a marker row, (timestamp,
\* priceUp, priceDown) of a price row
keyOf(row) ==
    IF row.entryType # "" THEN << "entry", row.timestamp, row.notes >>
    ELSE << "price", row.timestamp, row.priceUp, row.priceDown >>

\* the recent writes of a journal: as many of its last accepted rows as it
\* holds recent keys
recentRows(marketType) ==
    LET rows == journal(marketType)
        n == Len(writers[marketType].recentRowKeys)
    IN  SubSeq(rows, Len(rows) - n + 1, Len(rows))

\* C13: a row whose key is the key of one of the recent writes of its
\* journal is dropped, addRow returns false and the journal stays as it is;
\* and no two of a journal's recent writes have the same key
C13_DuplicateKeyDropped ==
    /\ [](\A marketType \in MarketTypes :
             \A i, j \in DOMAIN recentRows(marketType) :
                 keyOf(recentRows(marketType)[i]) = keyOf(recentRows(marketType)[j])
                     => i = j)
    /\ [][ emitted' # << >> =>
             LET call == emitted'[1]
                 recent == recentRows(call.marketType)
             IN  (\E i \in DOMAIN recent : keyOf(recent[i]) = keyOf(call.row)) =>
                     /\ ~call.accepted
                     /\ writers' = writers ]_vars

\* a second watch marker with the timestamp and the notes of the first, and
\* another transaction hash, has just been dropped by the journal
C13_Witness ==
    /\ marked # << >>
    /\ ~marked[1].logged
    /\ emitted # << >>
    /\ ~emitted[1].accepted
    /\ \E i \in DOMAIN recentRows(emitted[1].marketType) :
           keyOf(recentRows(emitted[1].marketType)[i]) = keyOf(emitted[1].row)

\* the timestamp of the last price row among rows (Null: none)
RECURSIVE lastPriceTimestamp(_)
lastPriceTimestamp(rows) ==
    IF rows = << >> THEN Null
    ELSE IF rows[Len(rows)].entryType = "" THEN rows[Len(rows)].timestamp
    ELSE lastPriceTimestamp(SubSeq(rows, 1, Len(rows) - 1))

\* C14: a price row stamped more than 1000 ms before the last price row
\* its journal wrote is rejected; a marker row is rejected only for its key
\* or its prices, whatever its timestamp, and leaves the journal's
\* last-written timestamp as it was
C14_OrderingGuard ==
    [][ emitted' # << >> =>
          LET call == emitted'[1]
              row == call.row
              last == lastPriceTimestamp(journal(call.marketType))
          IN  /\ ( /\ row.entryType = ""
                   /\ last # Null
                   /\ last - row.timestamp > 1000 ) =>
                     ~call.accepted /\ writers' = writers
              /\ row.entryType # "" =>
                     /\ writers'[call.marketType].lastWrittenTimestamp =
                            writers[call.marketType].lastWrittenTimestamp
                     /\ \/ call.accepted
                        \/ \E i \in DOMAIN recentRows(call.marketType) :
                               keyOf(recentRows(call.marketType)[i]) = keyOf(row)
                        \/ Abs(row.priceUp + row.priceDown - PriceUnit)
                               > PriceUnit \div 20 ]_vars

\* a price row stamped 2500 has just been rejected by a journal whose last
\* price row is stamped 7000
C14_Witness ==
    /\ inbox # << >>
    /\ emitted # << >>
    /\ emitted[1].row.entryType = ""
    /\ emitted[1].row.timestamp = 2500
    /\ ~emitted[1].accepted
    /\ lastPriceTimestamp(journal(emitted[1].marketType)) = 7000

\* C15: the marker calls of one kind that carry one transaction hash, or
\* no hash and one market type and notes, have at most one row accepted by
\* a journal between them
C15_MarkersIdempotent ==
    /\ [](\A key \in DOMAIN markerRows : markerRows[key] <= 1)
    /\ [][ (marked' # << >> /\ marked'[1].key \in loggedTradeEntries) =>
             /\ emitted' = << >>
             /\ writers' = writers ]_vars

\* a second marker call with the transaction hash of an accepted one, and
\* other notes and another timestamp, has just been ignored
C15_Witness ==
    /\ marked # << >>
    /\ marked[1].logged
    /\ marked[1].key \in DOMAIN markerRows
    /\ markerRows[marked[1].key] = 1
    /\ marked[1].call.transactionHash = "0xaa"
    /\ \A marketType \in MarketTypes :
           \A k \in DOMAIN journal(marketType) :
               journal(marketType)[k].timestamp # marked[1].call.tradeTimestamp

\* C16: when stop() completes, every row a journal has accepted is in its
\* file and none is left in its buffer
C16_StopLeavesNoBufferedRow ==
    [][ (stopPending /\ ~stopPending') =>
          \A marketType \in MarketTypes :
              writers'[marketType].buffer = << >> ]_vars


\* the handler of a frame failed: on its text, or on one of its events
failed(frame) ==
    frame = NotJson \/ \E k \in DOMAIN frame : throws(frame[k])

\* the events of a frame that come before the first one that fails
RECURSIVE beforeFailure(_)
beforeFailure(frame) ==
    IF frame = << >> \/ frame = NotJson THEN << >>
    ELSE IF throws(Head(frame)) THEN << >>
    ELSE << Head(frame) >> \o beforeFailure(Tail(frame))

\* C30: an exception raised while a frame is parsed or one of its events is
\* processed stays in the handler: no socket is closed, no reconnect is
\* scheduled, no discovery pass is started, nothing is sent, and the feed
\* can deliver the next frame; the logger is left as the events before
\* the failure left it, so that a frame that fails at once changes nothing
\* and the frames after it are processed as if it had not arrived.
C30_HandlerErrorIsContained ==
    [][ (delivered' = delivered + 1 /\ failed(inbox')) =>
            /\ ws' = ws /\ replaced' = replaced
            /\ isConnected' = isConnected
            /\ timers' = timers
            /\ reconnectTimeout' = reconnectTimeout
            /\ reconnectAttempts' = reconnectAttempts
            /\ passes' = passes
            /\ currentAssetIds' = currentAssetIds
            /\ isShuttingDown' = isShuttingDown
            /\ outbox' = << >>
            /\ canDeliver'
            /\ LET L == processEvents([ assetStates |-> assetStates,
                                        pendingRows |-> pendingRows,
                                        writers |-> writers,
                                        priceHistory |-> priceHistory,
                                        offers |-> << >>,
                                        emitted |-> << >> ],
                                      beforeFailure(inbox'))
               IN  /\ assetStates' = L.assetStates
                   /\ pendingRows' = L.pendingRows
                   /\ writers' = L.writers
                   /\ priceHistory' = L.priceHistory
                   /\ emitted' = L.emitted
            /\ (beforeFailure(inbox') = << >>) =>
                   /\ assetStates' = assetStates
                   /\ pendingRows' = pendingRows
                   /\ writers' = writers
                   /\ priceHistory' = priceHistory
                   /\ emitted' = << >> ]_vars

\* a frame with a null before a trade of a tracked token has arrived on the
\* open socket: the trade is not registered, the socket stays open and no
\* reconnect is pending
C30_Witness ==
    /\ inbox = << NullEvent, LastTradePriceEvent(1, "0.52", "1000") >>
    /\ ws = "open"
    /\ isConnected
    /\ 1 \in currentAssetIds
    /\ 1 \in DOMAIN assetStates
    /\ assetStates[1].lastTradePrice = Null
    /\ timers = {}
    /\ passes = << >>



\* C38: when addRow rejects a row (duplicate key, price row out of order,
\* prices that do not sum to one) it returns false and leaves the journal's
\* buffer, its recent keys and its last written timestamp as they were; a
\* rejected price row is not added to the price history.
C38_RejectedRowLeavesNoTrace ==
    [][ (Len(emitted') = 1 /\ ~emitted'[1].accepted) =>
            LET call == emitted'[1]
                before == writers[call.marketType]
                after == writers'[call.marketType]
            IN  /\ after.buffer = before.buffer
                /\ after.recentRowKeys = before.recentRowKeys
                /\ after.lastWrittenTimestamp = before.lastWrittenTimestamp
                /\ after.file = before.file
                /\ call.row.entryType = "" => priceHistory' = priceHistory ]_vars

\* the journal holds an accepted price row and has just rejected a price
\* row whose prices, 0.52 and 0.30, do not sum to one
C38_Witness ==
    /\ Len(emitted) = 1
    /\ ~emitted[1].accepted
    /\ emitted[1].row.entryType = ""
    /\ emitted[1].row.priceUp = 5200000
    /\ emitted[1].row.priceDown = 3000000
    /\ writers[emitted[1].marketType].buffer
         \o writers[emitted[1].marketType].file # << >>

\* C39: the idempotency key of a trade marker is remembered as logged only
\* if a journal accepted the marker's row, so that a marker whose row was
\* rejected can be submitted again with the same transaction hash.
C39_LoggedOnlyIfAccepted ==
    \A key \in loggedTradeEntries :
        key \in DOMAIN markerRows /\ markerRows[key] >= 1

\* C40: in each journal the timestamp of every accepted price row is at
\* most 1000 ms below the largest timestamp of the price rows accepted
\* before it: a run of rows each slightly out of order never moves the
\* ordering reference back by more than 1000 ms in total.
C40_OrderingReferenceNeverDrifts ==
    \A marketType \in MarketTypes :
        LET rows == journal(marketType)
        IN  \A i, j \in DOMAIN rows :
                (i < j /\ rows[i].entryType = "" /\ rows[j].entryType = "") =>
                    rows[j].timestamp >= rows[i].timestamp - 1000
(***************************************************************************)
(* Properties of the shutdown                                              *)
(***************************************************************************)
\* the stream's stop() has completed: shutdown was requested and awaited,
\* the keepalive, rotation and reconnect timers are stopped, the socket is
\* closed or closing, every journal is flushed and ended
streamStopped ==
    /\ isShuttingDown /\ ~stopPending
    /\ ~pingInterval /\ ~marketCheckInterval
    /\ reconnectTimeout \notin { t.id : t \in timers }
    /\ ws \notin { "connecting", "open" }
    /\ \A t \in MarketTypes : writers[t].ended /\ writers[t].buffer = << >>

\* C31: the process exits on a signal only after the price stream's
\* shutdown has completed: its timers are stopped, its socket is closed and
\* every journal is flushed and closed before process.exit is called.
C31_ExitAfterStreamStopped ==
    process = "exited" => streamStopped


\* the sockets that exist and have not closed: the current one and the
\* replaced ones
liveSockets ==
    (IF ws \in { "null", "closed" } THEN 0 ELSE 1) + Len(replaced)

\* C32: once stop() has been requested, no socket is created, no reconnect
\* timer is scheduled and no discovery pass is started (by the rotation poll
\* or otherwise), whatever completes afterwards: a discovery pass that was
\* in flight, a socket's close event.
C32_NothingStartsAfterStop ==
    [][ isShuttingDown =>
            /\ liveSockets' <= liveSockets
            /\ (ws' = "connecting" => ws = "connecting")
            /\ \A k \in DOMAIN replaced' :
                   replaced'[k] = "connecting" =>
                       \E j \in DOMAIN replaced : replaced[j] = "connecting"
            /\ timers' \subseteq timers
            /\ reconnectTimeout' = reconnectTimeout
            /\ { passes'[k].id : k \in DOMAIN passes' } \subseteq inFlight ]_vars

\* stop() was requested while the pass of start() was awaiting the catalog;
\* the pass has since returned with tokens to track and start() has set the
\* rotation poll: no socket was created, no timer is pending
C32_Witness ==
    /\ isShuttingDown
    /\ marketCheckInterval
    /\ passes = << >>
    /\ currentAssetIds # {}
    /\ ws = "null"
    /\ timers = {}


(***************************************************************************)
(* Properties of the rows across windows                                   *)
(***************************************************************************)
\* C33: every combined price row pairs an Up and a Down observation of the
\* same market window: a token of a type's pre-subscribed next window is
\* never paired with a token of its current window.
C33_RowPairsOneWindow ==
    \A k \in DOMAIN emitted :
        "pair" \in DOMAIN emitted[k] =>
            Markets[windowOf(emitted[k].pair[1])].condition_id
                = Markets[windowOf(emitted[k].pair[2])].condition_id


(***************************************************************************)
(* Properties of the connected flag and the keepalive                      *)
(***************************************************************************)
\* C34: whenever the current socket is open, the connected flag is true and
\* the keepalive ping timer is running: the close event of a socket that a
\* reconciliation replaced does not clear the flag or stop the timer of its
\* successor.
C34_OpenSocketIsConnected ==
    ws = "open" => isConnected /\ pingInterval


(***************************************************************************)
(* Properties of overlapping discovery passes                              *)
(***************************************************************************)
\* call i of discoverAndConnect has completed an attempt in this step
attemptOf(i) ==
    \/ Len(passes') < Len(passes)
         /\ passes[i].id \notin { passes'[k].id : k \in DOMAIN passes' }
    \/ Len(passes') = Len(passes) /\ passes'[i].attempt # passes[i].attempt

\* C35: when two discovery passes overlap, a pass that started earlier does
\* not overwrite the result of a pass that started later: once the later
\* pass has returned, the cached current and next windows stay those it
\* computed.
C35_EarlierPassNeverOverwrites ==
    [][ \A i \in DOMAIN passes :
            (passes[i].overtaken /\ attemptOf(i)) =>
                /\ currentMarkets' = currentMarkets
                /\ nextMarkets' = nextMarkets ]_vars


(***************************************************************************)
(* Properties of the asset states                                          *)
(***************************************************************************)
\* C36: the asset ids that have an AssetState are exactly the tracked asset
\* ids used for the subscription, so that the mid price of a token id can
\* be non-null only if the id is tracked.
C36_StatesAreTheTrackedSet ==
    /\ DOMAIN assetStates = currentAssetIds
    /\ \A tokenId \in TokenIds :
           getMidPrice(assetStates, tokenId) # Null =>
               tokenId \in currentAssetIds

\* after a rotation token 1, of the ended btc-updown-15m window, is no
\* longer tracked and has no state, while token 7 is tracked and has a price
C36_Witness ==
    /\ 1 \notin currentAssetIds
    /\ 3 \in currentAssetIds
    /\ 7 \in currentAssetIds
    /\ getMidPrice(assetStates, 7) # Null
    /\ getMidPrice(assetStates, 1) = Null


(***************************************************************************)
(* Properties of the pending buffers                                       *)
(***************************************************************************)
\* C37: after every processed price update, the pending buffer of each
\* market type holds at most one side: a complete pair is either emitted
\* and cleared, or reduced to its newer side.
C37_BufferHoldsOneSide ==
    \A marketType \in DOMAIN pendingRows :
        \/ pendingRows[marketType].up = NoPrice
        \/ pendingRows[marketType].down = NoPrice

\* a Down observation stamped 7000 has just met the buffered Up observation
\* stamped 2500: too far apart to pair, not stale; the buffer is reduced to
\* the Down side and no row is made
C37_Witness ==
    /\ Len(offers) = 1
    /\ offers[1].forwarded
    /\ ~offers[1].isUp
    /\ offers[1].ts_ms = 7000
    /\ assetStates[1].lastTradePrice = 5200004
    /\ emitted = << >>
    /\ delivered = 2
    /\ pendingRows[offers[1].marketType].up = NoPrice
    /\ pendingRows[offers[1].marketType].down.assetId = 2

=============================================================================
